---- MODULE Spec2Model ----
(***************************************************************************)
(* PHOS: the spec-driven filter/sort/paginate engine.                      *)
(*   SpecManager          src/src/core/SpecManager.js                      *)
(*   NativeArrayProvider  src/src/providers/NativeArrayProvider.js          *)
(*   DuckDBWasmProvider   src/src/providers/DuckDBWasmProvider.js           *)
(***************************************************************************)
EXTENDS Integers, Sequences, FiniteSets, TLC

VARIABLES
  filters,     \* SpecManager: spec.state.filters
  sort,        \* SpecManager: spec.state.sort
  pagination,  \* SpecManager: spec.state.pagination {page, pageSize}
  data,        \* NativeArrayProvider: this.data
  call,        \* the last operation called, with its arguments
  result,      \* what NativeArrayProvider.query last returned
  sqlResult,   \* what DuckDBWasmProvider.query last returned for the same call
  schema,      \* NativeArrayProvider: this.schema
  now,         \* the value of Date.now()
  deleted,     \* the __rowid values of the rows deleteRow has removed
  engine,      \* the choices the JavaScript engine makes where ECMAScript leaves them open
  wasm,        \* DuckDBWasmProvider: connection, table, schema, statements sent
  http,        \* DuckDBProvider: the WHERE clause it last built
  search,      \* FilterSearch: the expression, its blocks, their serialization
  manager,     \* SpecManager: listeners, dataDirty, groupBy, groupLevels, presets
  app          \* PhosApp: the application state and its initialization runs

\* The state of the provider mutations, of the SQL providers and of FilterSearch.
extraVars == <<schema, now, deleted, engine, wasm, http, search, manager, app>>

\* The state of the SpecManager.
managerVars == <<filters, sort, pagination, manager, app>>

\* The state of the NativeArrayProvider and what is recorded about it.
nativeVars == <<data, result, schema, now, deleted, engine>>

vars == <<filters, sort, pagination, data, call, result, sqlResult, extraVars>>

(***************************************************************************)
(* Bounds of the model.                                                    *)
(***************************************************************************)
MaxRows == 3        \* rows of a loaded dataset
MaxFilters == 2     \* filters of a transform handed to a provider
MaxEntries == 3     \* entries of spec.state.filters
MaxSortRows == 4    \* rows of a dataset of the sorting specification
MaxLimit == 2       \* pagination.limit of a transform handed to a provider
MaxOffset == 3      \* pagination.offset of a transform handed to a provider

(***************************************************************************)
(* JavaScript values.  Every value has the same shape, so that values of   *)
(* different types can sit in one set: t is the type, n the number (or the *)
(* boolean as 0/1), s the string as a sequence of characters, a the        *)
(* elements of an array (scalars).                                         *)
(***************************************************************************)
Null == [t |-> "null", n |-> 0, s |-> <<>>, a |-> <<>>]
Undefined == [t |-> "undefined", n |-> 0, s |-> <<>>, a |-> <<>>]
Num(k) == [t |-> "number", n |-> k, s |-> <<>>, a |-> <<>>]
Str(cs) == [t |-> "string", n |-> 0, s |-> cs, a |-> <<>>]
Bool(b) == [t |-> "boolean", n |-> IF b THEN 1 ELSE 0, s |-> <<>>, a |-> <<>>]
Arr(xs) == [t |-> "array", n |-> 0, s |-> <<>>, a |-> xs]

\* The characters of the model's strings, in code-unit order.
Alphabet ==
  <<" ", ",", "-", "0", "1", "2", "3", "4", "5", "6", "7", "8", "9",
    ">", "A", "B", "X", "a", "b", "d", "e", "f", "i", "l", "n", "r", "s", "t",
    "u", "x", "y">>

CharCode(c) == CHOOSE i \in 1..Len(Alphabet) : Alphabet[i] = c

Digits == <<"0", "1", "2", "3", "4", "5", "6", "7", "8", "9">>

IsDigit(c) == \E i \in 1..10 : Digits[i] = c

DigitValue(c) == (CHOOSE i \in 1..10 : Digits[i] = c) - 1

\* String.prototype.toLowerCase on one character.
LowerChar(c) ==
  CASE c = "A" -> "a"
    [] c = "B" -> "b"
    [] c = "X" -> "x"
    [] OTHER -> c

ToLowerCase(cs) == [i \in 1..Len(cs) |-> LowerChar(cs[i])]

\* The decimal digits of a natural number.
RECURSIVE NatToStr(_)
NatToStr(k) ==
  IF k < 10 THEN <<Digits[k + 1]>>
  ELSE NatToStr(k \div 10) \o <<Digits[(k % 10) + 1]>>

NumToStr(k) == IF k < 0 THEN <<"-">> \o NatToStr(0 - k) ELSE NatToStr(k)

\* The value of a string of digits.
RECURSIVE DigitsToNat(_)
DigitsToNat(cs) ==
  IF cs = <<>> THEN 0
  ELSE 10 * DigitsToNat(SubSeq(cs, 1, Len(cs) - 1)) + DigitValue(cs[Len(cs)])

AllDigits(cs) == cs # <<>> /\ \A i \in 1..Len(cs) : IsDigit(cs[i])

\* String(v) of a scalar.
ScalarToStr(v) ==
  CASE v.t = "null" -> <<"n", "u", "l", "l">>
    [] v.t = "undefined" -> <<"u", "n", "d", "e", "f", "i", "n", "e", "d">>
    [] v.t = "number" -> NumToStr(v.n)
    [] v.t = "boolean" ->
         IF v.n = 1 THEN <<"t", "r", "u", "e">> ELSE <<"f", "a", "l", "s", "e">>
    [] OTHER -> v.s

\* Array.prototype.join(','): null and undefined elements give ''.
RECURSIVE JoinComma(_)
JoinComma(xs) ==
  IF xs = <<>> THEN <<>>
  ELSE LET h == IF xs[1].t \in {"null", "undefined"} THEN <<>> ELSE ScalarToStr(xs[1])
       IN IF Len(xs) = 1 THEN h ELSE h \o <<",">> \o JoinComma(Tail(xs))

\* String(v).
ToStr(v) == IF v.t = "array" THEN JoinComma(v.a) ELSE ScalarToStr(v)

\* ToPrimitive: an array becomes its string.
ToPrimitive(v) == IF v.t = "array" THEN Str(JoinComma(v.a)) ELSE v

\* Number(v) of a primitive: nan says the result is NaN.
ToNumber(v) ==
  CASE v.t = "null" -> [nan |-> FALSE, n |-> 0]
    [] v.t = "undefined" -> [nan |-> TRUE, n |-> 0]
    [] v.t = "number" -> [nan |-> FALSE, n |-> v.n]
    [] v.t = "boolean" -> [nan |-> FALSE, n |-> v.n]
    [] OTHER ->
         IF v.s = <<>> THEN [nan |-> FALSE, n |-> 0]
         ELSE IF AllDigits(v.s) THEN [nan |-> FALSE, n |-> DigitsToNat(v.s)]
         ELSE IF v.s[1] = "-" /\ AllDigits(Tail(v.s))
           THEN [nan |-> FALSE, n |-> 0 - DigitsToNat(Tail(v.s))]
         ELSE [nan |-> TRUE, n |-> 0]

\* Code-unit order of two strings.
RECURSIVE LexLess(_, _)
LexLess(x, y) ==
  IF y = <<>> THEN FALSE
  ELSE IF x = <<>> THEN TRUE
  ELSE IF x[1] = y[1] THEN LexLess(Tail(x), Tail(y))
  ELSE CharCode(x[1]) < CharCode(y[1])

\* x < y
JsLess(x, y) ==
  LET px == ToPrimitive(x)
      py == ToPrimitive(y)
  IN IF px.t = "string" /\ py.t = "string" THEN LexLess(px.s, py.s)
     ELSE LET nx == ToNumber(px)
              ny == ToNumber(py)
          IN ~nx.nan /\ ~ny.nan /\ nx.n < ny.n

\* x > y
JsGreater(x, y) == JsLess(y, x)

\* x <= y
JsLessEq(x, y) ==
  LET px == ToPrimitive(x)
      py == ToPrimitive(y)
  IN IF px.t = "string" /\ py.t = "string" THEN ~LexLess(py.s, px.s)
     ELSE LET nx == ToNumber(px)
              ny == ToNumber(py)
          IN ~nx.nan /\ ~ny.nan /\ nx.n <= ny.n

\* x >= y
JsGreaterEq(x, y) == JsLessEq(y, x)

\* x === y (two arrays are two objects, never the same one)
StrictEq(x, y) == x.t # "array" /\ x = y

\* x == null
IsNullish(x) == x.t \in {"null", "undefined"}

\* Array.prototype.includes
Includes(xs, v) == \E i \in 1..Len(xs) : StrictEq(xs[i], v)

\* String.prototype.includes
StrIncludes(cs, sub) ==
  \E i \in 0..(Len(cs) - Len(sub)) : SubSeq(cs, i + 1, i + Len(sub)) = sub

\* String.prototype.trim
RECURSIVE TrimLeft(_)
TrimLeft(cs) == IF cs # <<>> /\ cs[1] = " " THEN TrimLeft(Tail(cs)) ELSE cs

RECURSIVE TrimRight(_)
TrimRight(cs) ==
  IF cs # <<>> /\ cs[Len(cs)] = " " THEN TrimRight(SubSeq(cs, 1, Len(cs) - 1)) ELSE cs

Trim(cs) == TrimRight(TrimLeft(cs))

\* String.prototype.split(','): the pieces, as strings.
RECURSIVE SplitComma(_, _)
SplitComma(cs, acc) ==
  IF cs = <<>> THEN <<acc>>
  ELSE IF cs[1] = "," THEN <<acc>> \o SplitComma(Tail(cs), <<>>)
  ELSE SplitComma(Tail(cs), Append(acc, cs[1]))

(***************************************************************************)
(* Rows, filters, transforms.                                              *)
(***************************************************************************)
\* A row of this.data: its __rowid and its other fields.
Row(id, cells) == [rowid |-> id, cells |-> cells]

\* row[col]: a field the row does not have reads as undefined.
Cell(row, col) == IF col \in DOMAIN row.cells THEN row.cells[col] ELSE Undefined

\* A filter of a TransformState.  hasColumns says the filter carries a
\* `columns` list; mode "absent" says it carries no mode.
Filter(col, op, val) ==
  [column |-> col, operator |-> op, value |-> val, mode |-> "absent",
   hasColumns |-> FALSE, columns |-> <<>>]

SortRule(col, dir) == [column |-> col, direction |-> dir]

\* A TransformState; hasPagination says it carries `pagination`.
Transform(fs, st, hasPag, limit, offset) ==
  [filters |-> fs, sort |-> st, hasPagination |-> hasPag,
   limit |-> limit, offset |-> offset]

NoTransform == Transform(<<>>, <<>>, FALSE, 0, 0)

NoResult == [status |-> "none", data |-> <<>>, totalCount |-> 0]

Min(x, y) == IF x < y THEN x ELSE y
Max(x, y) == IF x > y THEN x ELSE y

\* Array.prototype.slice(start, end)
Slice(xs, start, end) ==
  LET len == Len(xs)
      from == IF start < 0 THEN Max(len + start, 0) ELSE Min(start, len)
      to == IF end < 0 THEN Max(len + end, 0) ELSE Min(end, len)
  IN SubSeq(xs, from + 1, to)

(***************************************************************************)
(* NativeArrayProvider                                                     *)
(***************************************************************************)
\* A default branch that rejects the record.
checkConditionDefaultReject(value, operator, filterValue) == FALSE

\* The default branch passes the record.
checkConditionDefault(value, operator, filterValue) == TRUE

checkConditionIn(value, filterValue) ==
  IF value.t = "array"
    THEN filterValue.t = "array"
         /\ \E i \in 1..Len(filterValue.a) : Includes(value.a, filterValue.a[i])
    ELSE filterValue.t = "array" /\ Includes(filterValue.a, value)

checkConditionInAll(value, filterValue) ==
  IF value.t = "array"
    THEN filterValue.t = "array"
         /\ \A i \in 1..Len(filterValue.a) : Includes(value.a, filterValue.a[i])
    ELSE LET pieces == SplitComma(ToStr(value), <<>>)
             rowValues == [i \in 1..Len(pieces) |-> Str(Trim(pieces[i]))]
         IN filterValue.t = "array"
            /\ \A i \in 1..Len(filterValue.a) : Includes(rowValues, filterValue.a[i])

\* filterValue[i] of an array; undefined past its end.
ElemAt(v, i) == IF i <= Len(v.a) THEN v.a[i] ELSE Undefined

checkCondition(value, operator, filterValue) ==
  CASE operator = "=" ->
         IF value.t = "array" THEN Includes(value.a, filterValue)
         ELSE StrictEq(value, filterValue)
    [] operator = "!=" ->
         IF value.t = "array" THEN ~Includes(value.a, filterValue)
         ELSE ~StrictEq(value, filterValue)
    [] operator = ">" -> JsGreater(value, filterValue)
    [] operator = "<" -> JsLess(value, filterValue)
    [] operator = ">=" -> JsGreaterEq(value, filterValue)
    [] operator = "<=" -> JsLessEq(value, filterValue)
    [] operator = "LIKE" -> StrIncludes(ToStr(value), ToStr(filterValue))
    [] operator = "ILIKE" ->
         StrIncludes(ToLowerCase(ToStr(value)), ToLowerCase(ToStr(filterValue)))
    [] operator = "IN" -> filterValue.t = "array" /\ Includes(filterValue.a, value)
    [] operator = "in" -> checkConditionIn(value, filterValue)
    [] operator = "in_all" -> checkConditionInAll(value, filterValue)
    [] operator = "BETWEEN" ->
         /\ filterValue.t = "array"
         /\ JsGreaterEq(value, ElemAt(filterValue, 1))
         /\ JsLessEq(value, ElemAt(filterValue, 2))
    [] operator = "IS NULL" -> IsNullish(value)
    [] operator = "IS NOT NULL" -> ~IsNullish(value)
    [] OTHER -> checkConditionDefault(value, operator, filterValue)

\* One filter of matchesFilters: OR over filter.columns when it has them.
matchesFilter(row, filter) ==
  IF filter.hasColumns
    THEN \E i \in 1..Len(filter.columns) :
           checkCondition(Cell(row, filter.columns[i]), filter.operator, filter.value)
    ELSE checkCondition(Cell(row, filter.column), filter.operator, filter.value)

matchesFiltersAny(row, fs) == \E i \in 1..Len(fs) : matchesFilter(row, fs[i])

matchesFilters(row, fs) == \A i \in 1..Len(fs) : matchesFilter(row, fs[i])

\* The comparator of applySorting.
RECURSIVE sortCompare(_, _, _)
sortCompare(a, b, rules) ==
  IF rules = <<>> THEN 0
  ELSE LET aVal == Cell(a, rules[1].column)
           bVal == Cell(b, rules[1].column)
           comparison == IF JsLess(aVal, bVal) THEN -1
                         ELSE IF JsGreater(aVal, bVal) THEN 1 ELSE 0
       IN IF comparison # 0
            THEN (IF rules[1].direction = "asc" THEN comparison ELSE 0 - comparison)
            ELSE sortCompare(a, b, Tail(rules))

\* ECMAScript's "consistent comparator" for the elements being sorted.
ConsistentComparator(rows, rules) ==
  LET S == {rows[i] : i \in 1..Len(rows)}
      c(x, y) == sortCompare(x, y, rules)
  IN /\ \A x \in S : c(x, x) = 0
     /\ \A x, y \in S : c(x, y) = 0 => c(y, x) = 0
     /\ \A x, y, z \in S :
          /\ (c(x, y) = 0 /\ c(y, z) = 0) => c(x, z) = 0
          /\ (c(x, y) < 0 /\ c(y, z) < 0) => c(x, z) < 0
          /\ (c(x, y) > 0 /\ c(y, z) > 0) => c(x, z) > 0

\* The stable sort of rows under a consistent comparator.
RECURSIVE StableSort(_, _)
StableSort(rows, rules) ==
  IF rows = <<>> THEN <<>>
  ELSE LET n == Len(rows)
           front == StableSort(SubSeq(rows, 1, n - 1), rules)
           x == rows[n]
           k == Cardinality({i \in 1..Len(front) : sortCompare(front[i], x, rules) <= 0})
       IN SubSeq(front, 1, k) \o <<x>> \o SubSeq(front, k + 1, Len(front))

\* The orders of the same rows.
RowOrders(rows) ==
  LET S == {rows[i] : i \in 1..Len(rows)}
  IN {p \in [1..Len(rows) -> S] : {p[i] : i \in 1..Len(rows)} = S}

\* Array.prototype.sort(comparefn) is stable; with a comparator that is not
\* consistent the order is implementation-defined.
applySorting(rows, rules) ==
  IF ConsistentComparator(rows, rules) THEN {StableSort(rows, rules)}
  ELSE RowOrders(rows)

\* The result of query once the rows are filtered and sorted.
queryTotalAfterSlice(sorted, transform) ==
  LET page == IF transform.hasPagination
                THEN Slice(sorted, transform.offset, transform.offset + transform.limit)
                ELSE sorted
  IN [status |-> "ok", data |-> page, totalCount |-> Len(page)]

queryPage(sorted, transform) ==
  LET totalCount == Len(sorted)
      page == IF transform.hasPagination
                THEN Slice(sorted, transform.offset, transform.offset + transform.limit)
                ELSE sorted
  IN [status |-> "ok", data |-> page, totalCount |-> totalCount]

\* The rows query keeps.
queryFilter(rows, fs) ==
  LET Keep(row) == matchesFilters(row, fs)
  IN IF Len(fs) > 0 THEN SelectSeq(rows, Keep) ELSE rows

\* NativeArrayProvider.query: every result it can return.
NativeQuery(rows, transform) ==
  LET filtered == queryFilter(rows, transform.filters)
      sortedSet == IF Len(transform.sort) > 0
                     THEN applySorting(filtered, transform.sort)
                     ELSE {filtered}
  IN {queryPage(sorted, transform) : sorted \in sortedSet}

\* seq without its k-th element: seq.splice(k, 1).
RemoveAt(seq, k) == SubSeq(seq, 1, k - 1) \o SubSeq(seq, k + 1, Len(seq))

(***************************************************************************)
(* SpecManager                                                             *)
(***************************************************************************)
\* An entry of spec.state.filters.
Entry(col, op, val, enabled, mode) ==
  [column |-> col, operator |-> op, value |-> val, enabled |-> enabled, mode |-> mode]

\* The keys of filtersByColumn, in the order the Map got them.
RECURSIVE ColumnsInOrder(_, _)
ColumnsInOrder(es, seen) ==
  IF es = <<>> THEN <<>>
  ELSE IF es[1].column \in seen THEN ColumnsInOrder(Tail(es), seen)
  ELSE <<es[1].column>> \o ColumnsInOrder(Tail(es), seen \cup {es[1].column})

\* filters.filter(f => f.enabled)
EnabledEntries(es) == LET Keep(f) == f.enabled IN SelectSeq(es, Keep)

\* filtersByColumn.get(column)
GroupOf(es, col) ==
  LET Keep(f) == f.column = col IN SelectSeq(EnabledEntries(es), Keep)

\* A group of several entries keeps the operator of its first entry.
groupedFilterNoCollapse(col, group) ==
  Filter(group[1].column, group[1].operator, group[1].value)

\* A group of several entries is always given the operator 'in'.
groupedFilterAlwaysAny(col, group) ==
  IF Len(group) = 1
    THEN Filter(group[1].column, group[1].operator, group[1].value)
    ELSE [column |-> col,
          operator |-> "in",
          value |-> Arr([i \in 1..Len(group) |-> group[i].value]),
          mode |-> "ANY",
          hasColumns |-> FALSE, columns |-> <<>>]

\* One canonical filter out of the enabled entries of one column.
groupedFilter(col, group) ==
  IF Len(group) = 1
    THEN Filter(group[1].column, group[1].operator, group[1].value)
    ELSE LET mode == IF group[1].mode = "absent" THEN "ANY" ELSE group[1].mode
         IN [column |-> col,
             operator |-> IF mode = "ANY" THEN "in" ELSE "in_all",
             value |-> Arr([i \in 1..Len(group) |-> group[i].value]),
             mode |-> mode,
             hasColumns |-> FALSE, columns |-> <<>>]

\* The filters of toTransformState.
enabledFilters(es) ==
  LET cols == ColumnsInOrder(EnabledEntries(es), {})
  IN [i \in 1..Len(cols) |-> groupedFilter(cols[i], GroupOf(es, cols[i]))]

\* Number(v)
NumberOf(v) == ToNumber(ToPrimitive(v))

\* The pagination of toTransformState without the clamps.
transformPaginationUnclamped(pag) ==
  IF IsNullish(pag.pageSize) THEN [present |-> FALSE, limit |-> 0, offset |-> 0]
  ELSE LET size == NumberOf(pag.pageSize)
           page == NumberOf(pag.page)
           safePageSize == IF ~size.nan THEN size.n ELSE 0
           safePage == IF ~page.nan THEN page.n ELSE 1
       IN [present |-> TRUE, limit |-> safePageSize,
           offset |-> (safePage - 1) * safePageSize]

\* The pagination of toTransformState; present says it is emitted.
transformPagination(pag) ==
  IF IsNullish(pag.pageSize) THEN [present |-> FALSE, limit |-> 0, offset |-> 0]
  ELSE LET size == NumberOf(pag.pageSize)
           page == NumberOf(pag.page)
           safePageSize == IF ~size.nan THEN Max(0, size.n) ELSE 0
           safePage == IF ~page.nan THEN Max(1, page.n) ELSE 1
       IN [present |-> TRUE, limit |-> safePageSize,
           offset |-> (safePage - 1) * safePageSize]

toTransformState(es, st, pag) ==
  LET p == transformPagination(pag)
  IN Transform(enabledFilters(es),
               [i \in 1..Len(st) |-> SortRule(st[i].column, st[i].direction)],
               p.present, p.limit, p.offset)

\* The value setPagination stores.
safePagination(page, pageSize, current) ==
  LET p == NumberOf(page)
      size == NumberOf(pageSize)
  IN [page |-> IF ~p.nan THEN Num(Max(1, p.n)) ELSE Num(1),
      pageSize |-> IF IsNullish(pageSize) THEN pageSize
                   ELSE IF ~size.nan THEN Num(Max(0, size.n))
                   ELSE current.pageSize]

\* The operation last called: its name, the transform it was given (query)
\* and the sort rules it was given (setSort).
Call(op, transform) == [op |-> op, transform |-> transform, sortArg |-> <<>>]

SortCall(op, rules) == [op |-> op, transform |-> NoTransform, sortArg |-> rules]

DefaultPagination == [page |-> Num(1), pageSize |-> Num(50)]

\* new NativeArrayProvider(): this.schema
EmptySchema == [columns |-> <<>>, types |-> <<>>, hierarchy |-> {}]

\* Date.parse of a string that is not in the ECMAScript date-time format is
\* implementation-defined: lenientDates says the engine accepts such a string
\* when it holds a number (as V8 does), and rejects it otherwise.
StrictEngine == [lenientDates |-> FALSE]

\* new DuckDBWasmProvider(): no connection, no table, no schema, no column set.
\* table and tableColumns are the table the engine holds, schemaColumns is
\* this.schema.columns, sent the statements the last call sent to the engine,
\* where the clauses of the WHERE text the last call produced, whereIds and
\* orderIds the identifiers in the WHERE and ORDER BY texts it produced,
\* outcome how the last call ended.
NewWasm ==
  [connected |-> FALSE, table |-> <<>>, tableColumns |-> <<>>,
   schemaColumns |-> <<>>, hasColumnSet |-> FALSE, columnSet |-> {}, sent |-> <<>>,
   where |-> <<>>, whereIds |-> {}, orderIds |-> {}, outcome |-> "none"]

\* new DuckDBProvider(): no WHERE clause built.
NewHttp == [where |-> <<>>]

\* new SpecManager(): no listener, no subscription made, nothing notified,
\* the data not dirty, no grouping, no preset.  subscriptions are the calls of
\* subscribe so far, each with its listener and whether its unsubscribe
\* function was called; invoked the listeners the last notification called.
NewManager ==
  [listeners |-> {}, subscriptions |-> <<>>, invoked |-> {},
   dataDirty |-> FALSE, groupBy |-> Null, groupLevels |-> <<>>, presets |-> <<>>]

\* PhosApp before its first initialization effect.
NewApp ==
  [runs |-> <<>>, provider |-> 0, specManager |-> 0, schema |-> 0,
   uniqueValues |-> 0, result |-> 0, loading |-> TRUE, loadingSetBy |-> 0,
   errorMessage |-> 0]

\* new FilterSearch(): nothing searched for.
NoSearch == [expression |-> <<>>, blocks |-> <<>>, serialized |-> <<>>]

\* The providers and the search box as constructed.
InitExtra ==
  /\ schema = EmptySchema
  /\ now = 0
  /\ deleted = {}
  /\ engine = StrictEngine
  /\ wasm = NewWasm
  /\ http = NewHttp
  /\ search = NoSearch
  /\ manager = NewManager
  /\ app = NewApp

\* new SpecManager() with no provider data: the state every specification
\* starts from, except for what it says otherwise.
InitWith(es, st, pag, rows) ==
  /\ filters = es
  /\ sort = st
  /\ pagination = pag
  /\ data = rows
  /\ call = Call("new", NoTransform)
  /\ result = NoResult
  /\ sqlResult = NoResult
  /\ InitExtra

\* SpecManager.toTransformState, as query calls it: the caller holds the
\* transform of the current state.
ToTransformState ==
  /\ call' = Call("toTransformState", toTransformState(filters, sort, pagination))
  /\ UNCHANGED <<filters, sort, pagination, data, result, sqlResult, extraVars>>

\* What the filter operations leave as the last call.
FilterCall == Call("filters", NoTransform)

(***************************************************************************)
(* SpecManager: the filter list.                                           *)
(***************************************************************************)
EntryColumns == {"a", "b"}

\* Operator and value of the entries the callers add.
EntryConditions ==
  {<<"=", Num(1)>>, <<"=", Num(2)>>, <<"LIKE", Str(<<"x">>)>>}

\* FilterCategories.getFilterMode
getFilterMode(es, col) ==
  LET own == SelectSeq(es, LAMBDA f : f.column = col)
  IN IF own = <<>> \/ own[1].mode = "absent" THEN "ANY" ELSE own[1].mode

\* SpecManager.addFilter
addFilter(es, entry) == Append(es, entry)

\* addFilter as GridView, HierarchicalView and the tests call it: no mode.
AddFilter ==
  /\ Len(filters) < MaxEntries
  /\ \E col \in EntryColumns, c \in EntryConditions :
       filters' = addFilter(filters, Entry(col, c[1], c[2], TRUE, "absent"))
  /\ call' = FilterCall
  /\ UNCHANGED <<sort, pagination, data, result, sqlResult, extraVars>>

\* The values of the checkboxes of a column.
CheckboxValues == {Num(1), Num(2)}

\* FilterCategories.handleCheckboxChange: a checked box adds an '=' entry with
\* the column's mode, an unchecked one removes the first entry of the column
\* with the value.
handleCheckboxChange(es, col, val, checked) ==
  IF checked
    THEN addFilter(es, Entry(col, "=", val, TRUE, getFilterMode(es, col)))
    ELSE LET found == {i \in 1..Len(es) : es[i].column = col /\ StrictEq(es[i].value, val)}
         IN IF found = {} THEN es
            ELSE RemoveAt(es, CHOOSE i \in found : \A j \in found : i <= j)

HandleCheckboxChange ==
  /\ \E col \in EntryColumns, val \in CheckboxValues, checked \in BOOLEAN :
       /\ checked => Len(filters) < MaxEntries
       /\ filters' = handleCheckboxChange(filters, col, val, checked)
  /\ call' = FilterCall
  /\ UNCHANGED <<sort, pagination, data, result, sqlResult, extraVars>>

\* SpecManager.removeFilter
removeFilter(es, col) == SelectSeq(es, LAMBDA f : f.column # col)

RemoveFilter ==
  /\ \E col \in EntryColumns : filters' = removeFilter(filters, col)
  /\ call' = FilterCall
  /\ UNCHANGED <<sort, pagination, data, result, sqlResult, extraVars>>

\* SpecManager.clearFilters
ClearFilters ==
  /\ filters' = <<>>
  /\ call' = FilterCall
  /\ UNCHANGED <<sort, pagination, data, result, sqlResult, extraVars>>

\* Index of the first entry of a column, 0 when it has none.
FirstOf(es, col) ==
  IF \E i \in 1..Len(es) : es[i].column = col
    THEN CHOOSE i \in 1..Len(es) :
           es[i].column = col /\ \A j \in 1..(i - 1) : es[j].column # col
    ELSE 0

\* SpecManager.toggleFilter
toggleFilter(es, col) ==
  LET i == FirstOf(es, col)
  IN IF i = 0 THEN es ELSE [es EXCEPT ![i].enabled = ~es[i].enabled]

ToggleFilter ==
  /\ \E col \in EntryColumns :
       /\ FirstOf(filters, col) # 0
       /\ filters' = toggleFilter(filters, col)
  /\ call' = FilterCall
  /\ UNCHANGED <<sort, pagination, data, result, sqlResult, extraVars>>

\* FilterCategories.toggleFilterMode
toggleFilterMode(es, col) ==
  LET newMode == IF getFilterMode(es, col) = "ANY" THEN "ALL" ELSE "ANY"
  IN [i \in 1..Len(es) |->
        IF es[i].column = col THEN [es[i] EXCEPT !.mode = newMode] ELSE es[i]]

ToggleFilterMode ==
  /\ \E col \in EntryColumns :
       /\ FirstOf(filters, col) # 0
       /\ filters' = toggleFilterMode(filters, col)
  /\ call' = FilterCall
  /\ UNCHANGED <<sort, pagination, data, result, sqlResult, extraVars>>

InitFilters == InitWith(<<>>, <<>>, DefaultPagination, <<>>)

NextFilters ==
  \/ AddFilter
  \/ HandleCheckboxChange
  \/ RemoveFilter
  \/ ClearFilters
  \/ ToggleFilter
  \/ ToggleFilterMode
  \/ ToTransformState

SpecFilters == InitFilters /\ [][NextFilters]_vars

\* The positions of the enabled entries of a column.
EnabledAt(col) == {i \in 1..Len(filters) : filters[i].enabled /\ filters[i].column = col}

\* The canonical filters of a column in the transform the caller holds.
CanonicalAt(col) ==
  LET fs == call.transform.filters
  IN {i \in 1..Len(fs) : fs[i].column = col}

KthOf(S, k) == CHOOSE i \in S : Cardinality({j \in S : j < i}) = k - 1

\* C2: two or more enabled entries of a column become one filter whose value
\* lists the entries' values in filter-list order, with operator 'in' when
\* the group's mode is ANY or absent and 'in_all' when it is ALL; a single
\* enabled entry keeps its operator and value.
C2_GroupCollapse ==
  call.op = "toTransformState" =>
    LET fs == call.transform.filters
    IN \A col \in EntryColumns : \A i \in CanonicalAt(col) :
         LET at == EnabledAt(col)
             n == Cardinality(at)
         IN IF n >= 2
              THEN /\ fs[i].value.t = "array"
                   /\ Len(fs[i].value.a) = n
                   /\ \A k \in 1..n : fs[i].value.a[k] = filters[KthOf(at, k)].value
                   /\ (\A j \in at : filters[j].mode \in {"ANY", "absent"})
                        => fs[i].operator = "in"
                   /\ (\A j \in at : filters[j].mode = "ALL")
                        => fs[i].operator = "in_all"
              ELSE \A j \in at : /\ fs[i].operator = filters[j].operator
                                 /\ fs[i].value = filters[j].value

\* A column in mode ALL with two enabled entries of different values, in an
\* order that is not the order of the values.
C2_Witness ==
  /\ call.op = "toTransformState"
  /\ \E col \in EntryColumns :
       LET at == EnabledAt(col)
       IN /\ Cardinality(at) >= 2
          /\ \A j \in at : filters[j].mode = "ALL"
          /\ filters[KthOf(at, 1)].value = Num(2)
          /\ filters[KthOf(at, 2)].value = Num(1)

(***************************************************************************)
(* SpecManager: pagination.                                                *)
(***************************************************************************)
\* The values a page or a page size is given as.
PageValues ==
  {Null, Undefined, Num(-2), Num(0), Num(1), Num(3), Bool(TRUE),
   Str(<<>>), Str(<<"2">>), Str(<<"-", "3">>), Str(<<"a", "b">>), Arr(<<Num(2)>>)}

\* new SpecManager(initialSpec): initialSpec.state.pagination is kept as given.
InitPagination ==
  \E page \in PageValues, pageSize \in PageValues :
    InitWith(<<>>, <<>>, [page |-> page, pageSize |-> pageSize], <<>>)

\* SpecManager.setPagination
SetPagination ==
  /\ \E page \in PageValues, pageSize \in PageValues :
       pagination' = safePagination(page, pageSize, pagination)
  /\ call' = Call("setPagination", NoTransform)
  /\ UNCHANGED <<filters, sort, data, result, sqlResult, extraVars>>

NextPagination == SetPagination \/ ToTransformState

SpecPagination == InitPagination /\ [][NextPagination]_vars

\* C5: toTransformState omits pagination exactly when pageSize is null or
\* undefined; otherwise limit is pageSize clamped to at least 0 and offset is
\* (p - 1) * limit with p the page clamped to at least 1 (a non-numeric page
\* counts as 1), so that limit >= 0 and offset >= 0.
C5_PaginationClamped ==
  LET t == call.transform
      size == NumberOf(pagination.pageSize)
      page == NumberOf(pagination.page)
      p == IF page.nan \/ page.n < 1 THEN 1 ELSE page.n
  IN call.op = "toTransformState" =>
       /\ t.hasPagination <=> pagination.pageSize.t \notin {"null", "undefined"}
       /\ t.hasPagination =>
            /\ t.limit >= 0
            /\ t.offset >= 0
            /\ t.offset = (p - 1) * t.limit
            /\ ~size.nan => t.limit = (IF size.n < 0 THEN 0 ELSE size.n)

\* A negative page size with a page beyond the first, pagination emitted.
C5_Witness ==
  /\ call.op = "toTransformState"
  /\ pagination.pageSize = Num(-2)
  /\ pagination.page = Num(3)
  /\ call.transform.hasPagination

(***************************************************************************)
(* NativeArrayProvider.query on loaded datasets.                           *)
(***************************************************************************)
\* The fields of the rows that are loaded.
RowCells ==
  {[a |-> Num(1), b |-> Str(<<"x">>)],
   [a |-> Num(2), b |-> Str(<<"x", ",", "y">>)],
   [a |-> Str(<<"y">>), b |-> Null]}

\* NativeArrayProvider.load of an array of rows without __rowid: each row
\* gets an identifier of its own, made of its index.
load(cells) == [i \in 1..Len(cells) |-> Row(i, cells[i])]

\* The sequences over S of length at most n.
SeqsUpTo(S, n) == UNION {[1..k -> S] : k \in 0..n}

Datasets == {load(cells) : cells \in SeqsUpTo(RowCells, MaxRows)}

\* The filters handed to query.
QueryFilters ==
  {Filter("a", "=", Num(1)),
   Filter("a", ">", Num(1)),
   Filter("b", "LIKE", Str(<<"x">>)),
   Filter("a", "in", Arr(<<Num(1), Str(<<"y">>)>>)),
   Filter("b", "IS NULL", Null),
   Filter("a", "INVALID_OP", Num(1))}

\* The operators checkCondition has a case for.
KnownOperators ==
  {"=", "!=", ">", "<", ">=", "<=", "LIKE", "ILIKE", "IN", "in", "in_all",
   "BETWEEN", "IS NULL", "IS NOT NULL"}

PagedFilters == {<<>>, <<Filter("b", "IS NOT NULL", Null)>>, <<Filter("a", "!=", Num(1))>>}

PagedSorts == {<<>>, <<SortRule("a", "asc")>>, <<SortRule("b", "desc"), SortRule("a", "desc")>>}

\* The transforms handed to query: filters only; filters and sort rules;
\* filters, sort rules and pagination.
FilteredTransforms ==
  {Transform(fs, <<>>, FALSE, 0, 0) : fs \in SeqsUpTo(QueryFilters, MaxFilters)}

SortedTransforms ==
  {Transform(fs, st, FALSE, 0, 0) : fs \in PagedFilters, st \in PagedSorts \ {<<>>}}

PagedTransforms ==
  {Transform(x[1], x[2], TRUE, x[3], x[4]) :
     x \in PagedFilters \X PagedSorts \X (0..MaxLimit) \X (0..MaxOffset)}

\* provider.query(transform), for the transform the caller holds.
Query ==
  /\ call.op = "pending"
  /\ \E r \in NativeQuery(data, call.transform) : result' = r
  /\ call' = Call("query", call.transform)
  /\ UNCHANGED <<filters, sort, pagination, data, sqlResult, extraVars>>

\* A loaded provider and a caller about to query it.
InitQuery(rows, t) ==
  /\ filters = <<>>
  /\ sort = <<>>
  /\ pagination = DefaultPagination
  /\ data = rows
  /\ call = Call("pending", t)
  /\ result = NoResult
  /\ sqlResult = NoResult
  /\ InitExtra

InitNative ==
  \E rows \in Datasets :
    \E t \in FilteredTransforms \cup SortedTransforms \cup PagedTransforms :
      InitQuery(rows, t)

NextNative == Query

SpecNative == InitNative /\ [][NextNative]_vars

\* The positions of the rows of the dataset that satisfy every filter.
Passing(fs) ==
  {i \in 1..Len(data) : \A k \in 1..Len(fs) : matchesFilter(data[i], fs[k])}

RowIds(rows) == {rows[i].rowid : i \in 1..Len(rows)}

\* C3: query keeps a record iff the record satisfies every filter of the
\* transform; with no filter every record is kept.
C3_FilterConjunction ==
  call.op = "query" =>
    LET t == call.transform
    IN /\ result.totalCount = Cardinality(Passing(t.filters))
       /\ ~t.hasPagination =>
            /\ Len(result.data) = result.totalCount
            /\ RowIds(result.data) = {data[i].rowid : i \in Passing(t.filters)}
       /\ t.filters = <<>> => result.totalCount = Len(data)

\* Two filters, each of which some row passes and some row fails, and a row
\* that passes one filter only.
C3_Witness ==
  /\ call.op = "query"
  /\ Len(call.transform.filters) = 2
  /\ ~call.transform.hasPagination
  /\ Len(result.data) >= 1
  /\ \E i \in 1..Len(data) :
       /\ matchesFilter(data[i], call.transform.filters[1])
       /\ ~matchesFilter(data[i], call.transform.filters[2])
  /\ \E i \in 1..Len(data) :
       /\ ~matchesFilter(data[i], call.transform.filters[1])
       /\ matchesFilter(data[i], call.transform.filters[2])

\* The rows that pass the filters, in dataset order.
PassingRows(fs) == SelectSeq(data, LAMBDA row : row.rowid \in {data[i].rowid : i \in Passing(fs)})

\* C4: with pagination {limit, offset}, totalCount is the number of records
\* that pass the filters and data is the records at positions
\* [offset, offset + limit) of the filtered, sorted sequence; an offset at or
\* beyond the count gives no data and the same totalCount.
C4_PaginationWindow ==
  (call.op = "query" /\ call.transform.hasPagination) =>
    LET t == call.transform
        n == Cardinality(Passing(t.filters))
        orders == IF t.sort = <<>> THEN {PassingRows(t.filters)}
                  ELSE applySorting(PassingRows(t.filters), t.sort)
    IN /\ result.totalCount = n
       /\ t.offset >= n => result.data = <<>>
       /\ \E s \in orders :
            /\ Len(result.data) = Max(0, Min(t.limit, n - t.offset))
            /\ \A i \in 1..Len(result.data) : result.data[i] = s[t.offset + i]

\* A page in the middle of three sorted rows.
C4_Witness ==
  /\ call.op = "query"
  /\ call.transform.hasPagination
  /\ call.transform.sort # <<>>
  /\ call.transform.offset = 1
  /\ call.transform.limit = 1
  /\ result.totalCount = 3
  /\ Len(result.data) = 1

\* An offset beyond the count.
C4_WitnessBeyond ==
  /\ call.op = "query"
  /\ call.transform.hasPagination
  /\ call.transform.limit > 0
  /\ result.totalCount > 0
  /\ call.transform.offset > result.totalCount
  /\ result.data = <<>>

\* C10: a filter with an operator the provider does not recognize passes
\* every record: the result is defined and is the result of the same
\* transform without that filter.
C10_UnknownOperatorPasses ==
  call.op = "query" =>
    LET t == call.transform
    IN \A k \in 1..Len(t.filters) :
         t.filters[k].operator \notin KnownOperators =>
           /\ result.status = "ok"
           /\ result \in NativeQuery(data, [t EXCEPT !.filters = RemoveAt(t.filters, k)])

\* An unrecognized operator next to a filter that rejects a row, on a
\* dataset with a row that differs from the unrecognized filter's value.
C10_Witness ==
  /\ call.op = "query"
  /\ \E k \in 1..Len(call.transform.filters) :
       call.transform.filters[k].operator = "INVALID_OP"
  /\ \E i \in 1..Len(data) : Cell(data[i], "a") # Num(1)
  /\ \E i \in 1..Len(data) : Cell(data[i], "a") = Num(1)
  /\ result.totalCount >= 1
  /\ result.totalCount < Len(data)

(***************************************************************************)
(* SpecManager over a loaded NativeArrayProvider: setSort and query.       *)
(***************************************************************************)
SortColumns == {"a", "b"}

SortDirections == {"asc", "desc"}

\* The arrays of sort rules the grid and MultiLevelSort hand to setSort.
SortLists ==
  {<<>>, <<SortRule("a", "asc")>>, <<SortRule("b", "asc"), SortRule("a", "desc")>>}

\* What setSort stores for an argument that is neither an array nor an object.
setSortOther == <<>>

\* setSort(sortLevels) with an array.
SetSortArray ==
  /\ \E rules \in SortLists :
       /\ sort' = rules
       /\ call' = SortCall("setSortArray", rules)
  /\ UNCHANGED <<filters, pagination, data, result, sqlResult, extraVars>>

\* setSort({column, direction}) with one rule.
SetSortObject ==
  /\ \E col \in SortColumns, dir \in SortDirections :
       /\ sort' = <<SortRule(col, dir)>>
       /\ call' = SortCall("setSortObject", <<SortRule(col, dir)>>)
  /\ UNCHANGED <<filters, pagination, data, result, sqlResult, extraVars>>

\* setSort(column, direction) with a column name and a direction, as in
\* setSort('salary', 'desc'): sortLevels is a string, the direction is not read.
SetSortString ==
  /\ \E col \in SortColumns, dir \in SortDirections :
       /\ sort' = setSortOther
       /\ call' = SortCall("setSortString", <<SortRule(col, dir)>>)
  /\ UNCHANGED <<filters, pagination, data, result, sqlResult, extraVars>>

\* SpecManager.clearSort
ClearSort ==
  /\ sort' = <<>>
  /\ call' = SortCall("clearSort", <<>>)
  /\ UNCHANGED <<filters, pagination, data, result, sqlResult, extraVars>>

\* SpecManager.query: the provider's query of toTransformState().
SMQuery ==
  /\ LET t == toTransformState(filters, sort, pagination)
     IN /\ \E r \in NativeQuery(data, t) : result' = r
        /\ call' = Call("smQuery", t)
  /\ UNCHANGED <<filters, sort, pagination, data, sqlResult, extraVars>>

Init == \E rows \in Datasets : InitWith(<<>>, <<>>, DefaultPagination, rows)

Next ==
  \/ SetSortArray
  \/ SetSortObject
  \/ SetSortString
  \/ ClearSort
  \/ SMQuery

Spec == Init /\ [][Next]_vars

\* rows are in the order of one column in one direction: no row is followed
\* by a row that belongs before it.
OrderedBy(rows, rule) ==
  \A i, j \in 1..Len(rows) :
    i < j =>
      IF rule.direction = "desc"
        THEN ~JsLess(Cell(rows[i], rule.column), Cell(rows[j], rule.column))
        ELSE ~JsGreater(Cell(rows[i], rule.column), Cell(rows[j], rule.column))

\* C6: after setSort(column, direction), as in setSort('salary', 'desc'), the
\* next query returns its rows ordered by that column in that direction.
C6_SetSortOrdersNextQuery ==
  [][(call.op = "setSortString" /\ call'.op = "smQuery")
       => OrderedBy(result'.data, call.sortArg[1])]_vars

(***************************************************************************)
(* NativeArrayProvider.query: sorting.                                     *)
(***************************************************************************)
\* The values of the sort column.
SortValues ==
  {Null, Num(-1), Num(5), Str(<<"4">>), Str(<<"1", "0">>), Str(<<"x">>)}

SortDatasets ==
  {load([i \in 1..Len(vs) |-> [a |-> vs[i]]]) : vs \in SeqsUpTo(SortValues, MaxSortRows)}

SortTransforms ==
  {Transform(<<>>, <<SortRule("a", dir)>>, FALSE, 0, 0) : dir \in SortDirections}

InitSort == \E rows \in SortDatasets : \E t \in SortTransforms : InitQuery(rows, t)

NextSort == Query

SpecSort == InitSort /\ [][NextSort]_vars

\* Position of the row with an identifier in a list of rows.
PositionOf(rows, id) == CHOOSE i \in 1..Len(rows) : rows[i].rowid = id

\* C7: two records that are equal on the column of every sort rule appear in
\* the result in the same relative order as in the loaded dataset.
C7_SortStable ==
  (call.op = "query" /\ call.transform.sort # <<>>) =>
    \A i, j \in 1..Len(data) :
      (/\ i < j
       /\ \A k \in 1..Len(call.transform.sort) :
            Cell(data[i], call.transform.sort[k].column)
              = Cell(data[j], call.transform.sort[k].column))
        => PositionOf(result.data, data[i].rowid) < PositionOf(result.data, data[j].rowid)

\* C8: under an ascending rule every record whose value in the sort column is
\* null comes before every record whose value there is not null; under a
\* descending rule it comes after.
C8_NullsFirstAscending ==
  (call.op = "query" /\ Len(call.transform.sort) = 1) =>
    LET rule == call.transform.sort[1]
        rows == result.data
    IN \A i, j \in 1..Len(rows) :
         (Cell(rows[i], rule.column).t = "null" /\ Cell(rows[j], rule.column).t # "null")
           => IF rule.direction = "asc" THEN i < j ELSE j < i

(***************************************************************************)
(* DuckDBWasmProvider: the SQL it generates and what the engine selects.   *)
(***************************************************************************)
\* A predicate of the WHERE clause: kind is the SQL form, value the literal
\* (a list for IN and BETWEEN) as escapeValue renders it.
Clause(kind, col, op, val) == [kind |-> kind, column |-> col, operator |-> op, value |-> val]

\* An assertColumn that accepts every column name.
assertColumnAny(columnSet, col) == TRUE

\* assertColumn: the column is in the column set loaded from DESCRIBE.
assertColumn(columnSet, col) == col \in columnSet

\* isListColumn: the described type of the column names a list.
isListColumn(listColumns, col) == col \in listColumns

\* String(operator).toUpperCase() of the operators of a transform.
UpperOperator(op) ==
  CASE op = "in" -> "IN"
    [] op = "in_all" -> "IN_ALL"
    [] OTHER -> op

\* buildInAllClause
buildInAllClause(listColumns, filter) ==
  IF filter.value.t # "array" \/ Len(filter.value.a) = 0
    THEN Clause("FALSE", filter.column, "", Null)
  ELSE IF isListColumn(listColumns, filter.column)
    THEN Clause("list_contains", filter.column, "", filter.value)
  ELSE IF Len(filter.value.a) = 1
    THEN Clause("cmp", filter.column, "=", filter.value.a[1])
  ELSE Clause("FALSE", filter.column, "", Null)

\* One clause of buildWhereClause.
buildClause(listColumns, filter) ==
  LET operator == UpperOperator(filter.operator)
  IN CASE operator \in {"=", "!=", ">", "<", ">=", "<="} ->
            Clause("cmp", filter.column, operator, filter.value)
       [] operator = "LIKE" -> Clause("LIKE", filter.column, "", filter.value)
       [] operator \in {"ILIKE", "IN"} ->
            IF filter.value.t = "array"
              THEN IF Len(filter.value.a) = 0
                     THEN Clause("FALSE", filter.column, "", Null)
                     ELSE Clause("IN", filter.column, "", filter.value)
              ELSE Clause("cmp", filter.column, "=", filter.value)
       [] operator = "IN_ALL" -> buildInAllClause(listColumns, filter)
       [] operator = "BETWEEN" ->
            IF filter.value.t = "array" /\ Len(filter.value.a) >= 2
              THEN Clause("BETWEEN", filter.column, "", filter.value)
              ELSE Clause("FALSE", filter.column, "", Null)
       [] operator = "IS NULL" -> Clause("IS NULL", filter.column, "", Null)
       [] operator = "IS NOT NULL" -> Clause("IS NOT NULL", filter.column, "", Null)
       [] OTHER -> Clause("cmp", filter.column, "=", filter.value)

\* buildWhereClause: the clauses joined by AND.
buildWhereClause(listColumns, fs) ==
  [i \in 1..Len(fs) |-> buildClause(listColumns, fs[i])]

\* buildOrderClause
buildOrderClause(rules) ==
  [i \in 1..Len(rules) |->
     [column |-> rules[i].column,
      direction |-> IF rules[i].direction \in {"desc", "DESC"} THEN "DESC" ELSE "ASC"]]

\* SQL comparison of a column value with a literal of the same type: "T",
\* "F", or "N" (NULL) when either side is NULL; "E" when the types differ.
SqlCompare(x, op, y) ==
  IF IsNullish(x) \/ IsNullish(y) THEN "N"
  ELSE IF x.t # y.t THEN "E"
  ELSE LET lt == IF x.t = "string" THEN LexLess(x.s, y.s) ELSE x.n < y.n
           eq == x = y
           holds == CASE op = "=" -> eq
                      [] op = "!=" -> ~eq
                      [] op = "<" -> lt
                      [] op = "<=" -> lt \/ eq
                      [] op = ">" -> ~lt /\ ~eq
                      [] OTHER -> ~lt
       IN IF holds THEN "T" ELSE "F"

\* AND of SQL truth values.
SqlAnd(x, y) ==
  IF x = "E" \/ y = "E" THEN "E"
  ELSE IF x = "F" \/ y = "F" THEN "F"
  ELSE IF x = "N" \/ y = "N" THEN "N"
  ELSE "T"

\* The truth value of one clause on one row of the table.
SqlClause(row, c) ==
  LET x == Cell(row, c.column)
  IN CASE c.kind = "cmp" -> SqlCompare(x, c.operator, c.value)
       [] c.kind = "LIKE" -> SqlCompare(x, "=", c.value)
       [] c.kind = "IN" ->
            LET each == {SqlCompare(x, "=", c.value.a[i]) : i \in 1..Len(c.value.a)}
            IN IF "E" \in each THEN "E"
               ELSE IF "T" \in each THEN "T"
               ELSE IF "N" \in each THEN "N" ELSE "F"
       [] c.kind = "BETWEEN" ->
            SqlAnd(SqlCompare(x, ">=", c.value.a[1]), SqlCompare(x, "<=", c.value.a[2]))
       [] c.kind = "IS NULL" -> IF IsNullish(x) THEN "T" ELSE "F"
       [] c.kind = "IS NOT NULL" -> IF IsNullish(x) THEN "F" ELSE "T"
       [] c.kind = "list_contains" ->
            IF x.t # "array" THEN "E"
            ELSE IF \A i \in 1..Len(c.value.a) : Includes(x.a, c.value.a[i])
              THEN "T" ELSE "F"
       [] OTHER -> "F"

\* The truth value of the WHERE clause on one row.
RECURSIVE SqlWhere(_, _)
SqlWhere(row, clauses) ==
  IF clauses = <<>> THEN "T"
  ELSE SqlAnd(SqlClause(row, clauses[1]), SqlWhere(row, Tail(clauses)))

\* ORDER BY: x sorts strictly before y under the rules; NULLs go first or
\* last as the engine's default_null_order says.
RECURSIVE SqlBefore(_, _, _, _)
SqlBefore(x, y, order, nullsFirst) ==
  IF order = <<>> THEN FALSE
  ELSE LET u == Cell(x, order[1].column)
           v == Cell(y, order[1].column)
           rest == SqlBefore(x, y, Tail(order), nullsFirst)
       IN IF IsNullish(u) /\ IsNullish(v) THEN rest
          ELSE IF IsNullish(u) THEN nullsFirst
          ELSE IF IsNullish(v) THEN ~nullsFirst
          ELSE IF u = v THEN rest
          ELSE LET lt == IF u.t = "string" THEN LexLess(u.s, v.s) ELSE u.n < v.n
               IN IF order[1].direction = "ASC" THEN lt ELSE ~lt

\* The orders ORDER BY can return: sorted, ties in any order.  With no ORDER
\* BY the table is scanned in insertion order.
SqlOrders(rows, order) ==
  IF order = <<>> THEN {rows}
  ELSE {p \in RowOrders(rows) :
          \E nullsFirst \in BOOLEAN :
            \A i, j \in 1..Len(p) : i < j => ~SqlBefore(p[j], p[i], order, nullsFirst)}

\* DuckDBWasmProvider.query: every result it can return.  A filter or sort
\* rule on a column that is not in the column set makes it throw, as does an
\* error of the engine.
WasmQuery(rows, columnSet, listColumns, transform) ==
  LET where == buildWhereClause(listColumns, transform.filters)
      order == buildOrderClause(transform.sort)
      known == /\ \A i \in 1..Len(transform.filters) :
                    assertColumn(columnSet, transform.filters[i].column)
               /\ \A i \in 1..Len(transform.sort) :
                    assertColumn(columnSet, transform.sort[i].column)
      failed == \E i \in 1..Len(rows) : SqlWhere(rows[i], where) = "E"
      selected == SelectSeq(rows, LAMBDA row : SqlWhere(row, where) = "T")
      Page(p) == IF transform.hasPagination
                   THEN SubSeq(p, transform.offset + 1,
                               Min(Len(p), transform.offset + transform.limit))
                   ELSE p
  IN IF ~known \/ failed THEN {[status |-> "threw", data |-> <<>>, totalCount |-> 0]}
     ELSE {[status |-> "ok", data |-> Page(p), totalCount |-> Len(selected)] :
             p \in SqlOrders(selected, order)}

(***************************************************************************)
(* The two providers on the same dataset and the same transform.           *)
(***************************************************************************)
\* Rows of a table with an INTEGER column a and a VARCHAR column b.
TableCells ==
  {[a |-> Num(1), b |-> Str(<<"x">>)],
   [a |-> Num(2), b |-> Str(<<"x", "y">>)],
   [a |-> Null, b |-> Str(<<"X">>)]}

TableColumns == {"a", "b"}

TableDatasets == {load(cells) : cells \in SeqsUpTo(TableCells, MaxRows)}

\* One filter per operator, each with a value of the column's type.
TableFilters ==
  {Filter("a", "=", Num(1)),
   Filter("a", "!=", Num(1)),
   Filter("a", ">", Num(1)),
   Filter("a", "<", Num(2)),
   Filter("a", ">=", Num(2)),
   Filter("a", "<=", Num(1)),
   Filter("b", "LIKE", Str(<<"x">>)),
   Filter("b", "ILIKE", Str(<<"x">>)),
   Filter("a", "in", Arr(<<Num(1), Num(2)>>)),
   Filter("a", "in_all", Arr(<<Num(1)>>)),
   Filter("a", "BETWEEN", Arr(<<Num(1), Num(2)>>)),
   Filter("a", "IS NULL", Null),
   Filter("a", "IS NOT NULL", Null),
   Filter("a", "INVALID_OP", Num(1))}

TableTransforms ==
  {Transform(<<f>>, <<>>, FALSE, 0, 0) : f \in TableFilters}
    \cup {Transform(<<>>, <<SortRule("b", dir)>>, TRUE, 2, 1) : dir \in SortDirections}

\* The same transform sent to both providers, each loaded with the dataset.
QueryBoth ==
  /\ call.op = "pending"
  /\ \E r \in NativeQuery(data, call.transform) : result' = r
  /\ \E r \in WasmQuery(data, TableColumns, {}, call.transform) : sqlResult' = r
  /\ call' = Call("queryBoth", call.transform)
  /\ UNCHANGED <<filters, sort, pagination, data, extraVars>>

InitEquiv == \E rows \in TableDatasets : \E t \in TableTransforms : InitQuery(rows, t)

NextEquiv == QueryBoth

SpecEquiv == InitEquiv /\ [][NextEquiv]_vars

\* The fields of the rows of a result, without the row identifiers.
CellsOf(rows) == [i \in 1..Len(rows) |-> rows[i].cells]

\* C9: for every dataset both backends can hold and every transform, the rows
\* the generated SQL selects, their order and the totalCount equal those of
\* NativeArrayProvider.query.
C9_ProvidersAgree ==
  call.op = "queryBoth" =>
    /\ sqlResult.status = "ok"
    /\ CellsOf(sqlResult.data) = CellsOf(result.data)
    /\ sqlResult.totalCount = result.totalCount

(***************************************************************************)
(* DuckDBWasmProvider: load, getSchema, query and getUniqueValues.          *)
(***************************************************************************)
\* A call starts: nothing sent, nothing produced yet.
wasmCallStart(w) ==
  [w EXCEPT !.sent = <<>>, !.where = <<>>, !.whereIds = {}, !.orderIds = {},
            !.outcome = "ok"]

\* queryAll(sql): this.conn.query throws a TypeError while conn is null.
wasmSend(w, statement) ==
  IF w.outcome # "ok" THEN w
  ELSE IF ~w.connected THEN [w EXCEPT !.outcome = "TypeError"]
  ELSE [w EXCEPT !.sent = Append(@, statement)]

\* getSchema: the stored schema when it has columns, else DESCRIBE.
wasmGetSchema(w) ==
  IF w.outcome # "ok" \/ Len(w.schemaColumns) > 0 THEN w
  ELSE LET d == wasmSend(w, "DESCRIBE")
       IN IF d.outcome # "ok" THEN d
          ELSE [d EXCEPT !.schemaColumns = d.tableColumns,
                         !.hasColumnSet = TRUE,
                         !.columnSet = {d.tableColumns[i] : i \in 1..Len(d.tableColumns)}]

\* An ensureSchema that never fetches the table description.
wasmEnsureSchemaSkip(w) == w

\* ensureSchema
wasmEnsureSchema(w) == IF Len(w.schemaColumns) = 0 THEN wasmGetSchema(w) ELSE w

\* assertColumn on the provider: how it ends, "ok" when it returns.
wasmAssertColumn(w, col) ==
  IF ~w.hasColumnSet \/ Len(w.schemaColumns) = 0 THEN "SchemaNotLoaded"
  ELSE IF ~assertColumn(w.columnSet, col) THEN "UnknownColumn"
  ELSE "ok"

\* The first assertColumn that throws over a list of columns, "ok" if none.
RECURSIVE wasmAssertAll(_, _)
wasmAssertAll(w, cols) ==
  IF cols = <<>> THEN "ok"
  ELSE IF wasmAssertColumn(w, cols[1]) # "ok" THEN wasmAssertColumn(w, cols[1])
  ELSE wasmAssertAll(w, Tail(cols))

\* query up to the SQL text: ensureSchema, buildWhereClause, buildOrderClause.
wasmBuildQuery(w0, transform) ==
  LET w == wasmEnsureSchema(wasmCallStart(w0))
      filterColumns == [i \in 1..Len(transform.filters) |-> transform.filters[i].column]
      sortColumns == [i \in 1..Len(transform.sort) |-> transform.sort[i].column]
      whereEnds == wasmAssertAll(w, filterColumns)
      orderEnds == wasmAssertAll(w, sortColumns)
  IN IF w.outcome # "ok" THEN w
     ELSE IF whereEnds # "ok" THEN [w EXCEPT !.outcome = whereEnds]
     ELSE IF orderEnds # "ok"
       THEN [w EXCEPT !.outcome = orderEnds,
                      !.where = buildWhereClause({}, transform.filters),
                      !.whereIds = {filterColumns[i] : i \in 1..Len(filterColumns)}]
     ELSE [w EXCEPT !.where = buildWhereClause({}, transform.filters),
                    !.whereIds = {filterColumns[i] : i \in 1..Len(filterColumns)},
                    !.orderIds = {sortColumns[i] : i \in 1..Len(sortColumns)}]

Threw == [status |-> "threw", data |-> <<>>, totalCount |-> 0]

\* Tables loaded from a JSON array of rows with the columns a and b.
WasmTables == TableDatasets \ {<<>>}

\* Transforms naming a column the table does not have.
UnknownColumnTransforms ==
  {Transform(<<Filter("zz", "=", Num(1))>>, <<>>, FALSE, 0, 0),
   Transform(<<Filter("a", "=", Num(1)), Filter("zz", "=", Num(1))>>, <<>>, FALSE, 0, 0),
   Transform(<<>>, <<SortRule("zz", "asc")>>, FALSE, 0, 0),
   Transform(<<Filter("a", ">", Num(1))>>, <<SortRule("zz", "desc")>>, FALSE, 0, 0)}

WasmTransforms == TableTransforms \cup UnknownColumnTransforms

\* DuckDBWasmProvider.load of an array: initDatabase, loadJsonArray.
WasmLoad ==
  /\ \E rows \in WasmTables :
       wasm' = [wasmCallStart(wasm) EXCEPT
                  !.connected = TRUE, !.table = rows, !.tableColumns = <<"a", "b">>,
                  !.schemaColumns = <<>>, !.hasColumnSet = FALSE, !.columnSet = {},
                  !.sent = <<"CREATE">>]
  /\ call' = Call("wasmLoad", NoTransform)
  /\ sqlResult' = NoResult
  /\ UNCHANGED <<managerVars, nativeVars, http, search>>

\* DuckDBWasmProvider.getSchema
WasmGetSchema ==
  /\ wasm' = wasmGetSchema(wasmCallStart(wasm))
  /\ call' = Call("wasmGetSchema", NoTransform)
  /\ sqlResult' = NoResult
  /\ UNCHANGED <<managerVars, nativeVars, http, search>>

\* DuckDBWasmProvider.query
WasmQueryCall ==
  /\ \E t \in WasmTransforms :
       LET w == wasmBuildQuery(wasm, t)
       IN /\ call' = Call("wasmQuery", t)
          /\ IF w.outcome # "ok"
               THEN wasm' = w /\ sqlResult' = Threw
             ELSE IF ~w.connected
               THEN wasm' = [w EXCEPT !.outcome = "TypeError"] /\ sqlResult' = Threw
             ELSE \E r \in WasmQuery(w.table, w.columnSet, {}, t) :
                    /\ sqlResult' = r
                    /\ wasm' = IF r.status = "ok"
                                 THEN [w EXCEPT !.sent = @ \o <<"SELECT", "COUNT">>]
                                 ELSE [w EXCEPT !.sent = Append(@, "SELECT"),
                                                !.outcome = "EngineError"]
  /\ UNCHANGED <<managerVars, nativeVars, http, search>>

\* The values SELECT DISTINCT returns for a column, nulls left out.
distinctValues(rows, col) ==
  {Cell(rows[i], col) : i \in 1..Len(rows)} \ {Null, Undefined}

\* DuckDBWasmProvider.getUniqueValues
WasmGetUniqueValues ==
  /\ \E col \in {"a", "b", "zz"} :
       LET w == wasmEnsureSchema(wasmCallStart(wasm))
           ends == IF w.outcome # "ok" THEN w.outcome ELSE wasmAssertColumn(w, col)
           s == wasmSend([w EXCEPT !.outcome = ends], "DISTINCT")
       IN /\ wasm' = s
          /\ sqlResult' = IF s.outcome # "ok" THEN Threw
                          ELSE [status |-> "ok", data |-> <<>>,
                                totalCount |-> Cardinality(distinctValues(s.table, col))]
          /\ call' = [Call("wasmGetUniqueValues", NoTransform) EXCEPT !.sortArg = <<col>>]
  /\ UNCHANGED <<managerVars, nativeVars, http, search>>

InitWasm == InitWith(<<>>, <<>>, DefaultPagination, <<>>)

NextWasm ==
  \/ WasmLoad
  \/ WasmGetSchema
  \/ WasmQueryCall
  \/ WasmGetUniqueValues

SpecWasm == InitWasm /\ [][NextWasm]_vars

\* The columns the filters and the sort rules of a transform name.
NamedColumns(t) ==
  {t.filters[i].column : i \in 1..Len(t.filters)}
    \cup {t.sort[i].column : i \in 1..Len(t.sort)}

\* C11: query throws and sends neither the data statement nor the COUNT
\* statement whenever a filter or a sort rule of the transform names a column
\* that is not in the column set loaded from the table description; the WHERE
\* and ORDER BY texts it produces hold no such identifier.
C11_UnknownColumnRejected ==
  call.op = "wasmQuery" =>
    /\ wasm.whereIds \cup wasm.orderIds \subseteq wasm.columnSet
    /\ (\E col \in NamedColumns(call.transform) : col \notin wasm.columnSet) =>
         /\ sqlResult.status = "threw"
         /\ wasm.outcome \in {"UnknownColumn", "SchemaNotLoaded", "TypeError"}
         /\ \A i \in 1..Len(wasm.sent) : wasm.sent[i] \notin {"SELECT", "COUNT"}

\* A loaded table, a known filter followed by a filter on an unknown column.
C11_Witness ==
  /\ call.op = "wasmQuery"
  /\ wasm.connected
  /\ wasm.hasColumnSet
  /\ Len(call.transform.filters) = 2
  /\ call.transform.filters[1].column \in wasm.columnSet
  /\ call.transform.filters[2].column \notin wasm.columnSet
  /\ wasm.outcome = "UnknownColumn"
  /\ sqlResult.status = "threw"

\* A call of query or getUniqueValues on a provider whose schema is not loaded.
CallWithoutSchema ==
  /\ Len(wasm.schemaColumns) = 0
  /\ call'.op \in {"wasmQuery", "wasmGetUniqueValues"}

httpBuildClause(filter) ==
  CASE filter.operator \in {"=", "!=", ">", "<", ">=", "<="} ->
         Clause("cmp", filter.column, filter.operator, filter.value)
    [] filter.operator = "LIKE" -> Clause("LIKE", filter.column, "", filter.value)
    [] filter.operator = "ILIKE" -> Clause("ILIKE", filter.column, "", filter.value)
    [] filter.operator \in {"in", "IN"} ->
         IF filter.value.t = "array"
           THEN Clause("IN", filter.column, "", filter.value)
           ELSE Clause("cmp", filter.column, "=", filter.value)
    [] OTHER -> Clause("cmp", filter.column, "=", filter.value)

\* DuckDBProvider.buildWhereClause
httpBuildWhereClause(fs) == [i \in 1..Len(fs) |-> httpBuildClause(fs[i])]

\* The filters rendered: every operator on a number, a string and a list.
RenderOperators == KnownOperators \cup {"INVALID_OP"}

RenderTransforms ==
  {Transform(<<Filter(col, op, val)>>, <<>>, FALSE, 0, 0) :
     col \in TableColumns, op \in RenderOperators,
     val \in {Num(1), Str(<<"x">>), Arr(<<Num(1), Num(2)>>)}}

\* buildWhereClause of both SQL providers on the filters the caller holds;
\* the DuckDBWasmProvider has its schema loaded.
BuildWhereClauses ==
  /\ call.op = "pending"
  /\ wasm' = [wasm EXCEPT !.where = buildWhereClause({}, call.transform.filters)]
  /\ http' = [where |-> httpBuildWhereClause(call.transform.filters)]
  /\ call' = Call("buildWhereClause", call.transform)
  /\ UNCHANGED <<managerVars, nativeVars, sqlResult, search>>

InitRender == \E t \in RenderTransforms : InitQuery(<<>>, t)

NextRender == BuildWhereClauses

SpecRender == InitRender /\ [][NextRender]_vars

\* C13: both SQL providers render a LIKE filter as <column> LIKE <value> and
\* an ILIKE filter as <column> ILIKE <value>.
C13_LikeAndIlikeRendered ==
  call.op = "buildWhereClause" =>
    \A i \in 1..Len(call.transform.filters) :
      LET f == call.transform.filters[i]
      IN f.operator \in {"LIKE", "ILIKE"} =>
           /\ wasm.where[i] = Clause(f.operator, f.column, "", f.value)
           /\ http.where[i] = Clause(f.operator, f.column, "", f.value)

(***************************************************************************)
(* NativeArrayProvider: load, the mutations and the schema.                *)
(***************************************************************************)
\* Date.now() takes the values 0..MaxTime; the dataset grows to MaxDataRows
\* rows; a run makes MaxOps calls.
MaxTime == 1
MaxDataRows == 3
MaxOps == 3

\* The __rowid `row_${index}_${time}`.
RowId(index, time) == [index |-> index, time |-> time]

\* An input row that carries no __rowid.
NoRowId == RowId(-1, -1)

\* A row with the order of its keys (Object.keys).
Record(id, keys, cells) == [rowid |-> id, keys |-> keys, cells |-> cells]

Range(seq) == {seq[i] : i \in 1..Len(seq)}

\* row[col] = v: a new key goes last.
SetField(row, col, v) ==
  [row EXCEPT !.keys = IF col \in Range(@) THEN @ ELSE Append(@, col),
              !.cells = (col :> v) @@ @]

\* delete row[col]
DeleteField(row, col) ==
  [row EXCEPT !.keys = SelectSeq(@, LAMBDA k : k # col),
              !.cells = [k \in (DOMAIN @) \ {col} |-> @[k]]]

\* The state of the provider a mutation works on and leaves: this.data,
\* this.schema, and whether the call threw.
Provider(rows, sch, threw) == [data |-> rows, schema |-> sch, threw |-> threw]

\* The index of the first row with the given __rowid, 0 when there is none
\* (Array.prototype.find / findIndex).
FindRow(rows, rowId) ==
  IF \E i \in 1..Len(rows) : rows[i].rowid = rowId
  THEN CHOOSE i \in 1..Len(rows) :
         /\ rows[i].rowid = rowId
         /\ \A j \in 1..(i - 1) : rows[j].rowid # rowId
  ELSE 0

\* !isNaN(Date.parse(cs)): a four-digit year is in the ECMAScript date-time
\* format; any other string of the model is not, and the engine decides.
DateParses(cs) ==
  \/ Len(cs) = 4 /\ AllDigits(cs)
  \/ engine.lenientDates /\ \E i \in 1..Len(cs) : IsDigit(cs[i])

\* NativeArrayProvider.inferType
inferType(value) ==
  CASE value.t \in {"null", "undefined"} -> "string"
    [] value.t = "number" -> "number"
    [] value.t = "boolean" -> "boolean"
    [] value.t = "string" ->
         IF DateParses(value.s) THEN "date"
         ELSE IF ~ToNumber(value).nan THEN "number"
         ELSE "string"
    [] OTHER -> "string"

\* inferSchema without the hierarchy test: no column is a hierarchy.
isHierarchyNever(value) == FALSE

\* The hierarchy test of inferSchema on one value of the sample row.
isHierarchy(value) == value.t = "string" /\ StrIncludes(value.s, <<">">>)

\* NativeArrayProvider.inferSchema: the first row is the sample.  hierarchy
\* holds the keys of schema.hierarchy, each with {delimiter: '>'}.
inferSchema(rows) ==
  IF rows = <<>> THEN EmptySchema
  ELSE LET sample == rows[1]
           keys == sample.keys
       IN [columns |-> [i \in 1..Len(keys) |->
                          [name |-> keys[i], type |-> inferType(Cell(sample, keys[i]))]],
           types |-> [k \in Range(keys) |->
                        IF isHierarchy(Cell(sample, k)) THEN "hierarchy"
                        ELSE inferType(Cell(sample, k))],
           hierarchy |-> {k \in Range(keys) : isHierarchy(Cell(sample, k))}]

\* NativeArrayProvider.load of an array at time t.
loadAt(input, t) ==
  LET rows == [i \in 1..Len(input) |->
                 Record(IF input[i].rowid # NoRowId THEN input[i].rowid
                        ELSE RowId(i - 1, t),
                        input[i].keys, input[i].cells)]
  IN Provider(rows, inferSchema(rows), FALSE)

\* The value updateCell stores for the value it is given.
parseCellValue(value, currentType) ==
  IF value = Str(<<"t", "r", "u", "e">>) THEN Bool(TRUE)
  ELSE IF value = Str(<<"f", "a", "l", "s", "e">>) THEN Bool(FALSE)
  ELSE IF ~ToNumber(ToPrimitive(value)).nan /\ value # Str(<<>>) /\ value # Null
            /\ currentType = "number"
    THEN Num(ToNumber(ToPrimitive(value)).n)
  ELSE value

\* NativeArrayProvider.updateCell
updateCell(p, rowId, column, value) ==
  LET i == FindRow(p.data, rowId)
      currentType == IF column \in DOMAIN p.schema.types
                     THEN p.schema.types[column] ELSE "undefined"
  IN IF i = 0 THEN Provider(p.data, p.schema, TRUE)
     ELSE Provider([p.data EXCEPT ![i] = SetField(@, column,
                                            parseCellValue(value, currentType))],
                   p.schema, FALSE)

\* NativeArrayProvider.deleteRow
deleteRow(p, rowId) ==
  Provider(SelectSeq(p.data, LAMBDA r : r.rowid # rowId), p.schema, FALSE)

\* NativeArrayProvider.duplicateRow at time t.
duplicateRow(p, rowId, t) ==
  LET i == FindRow(p.data, rowId)
      newRow == [p.data[i] EXCEPT !.rowid = RowId(Len(p.data), t)]
  IN IF i = 0 THEN Provider(p.data, p.schema, FALSE)
     ELSE Provider(SubSeq(p.data, 1, i) \o <<newRow>>
                     \o SubSeq(p.data, i + 1, Len(p.data)),
                   p.schema, FALSE)

\* The columns of this.schema.columns named name.
SchemaHas(sch, name) == \E i \in 1..Len(sch.columns) : sch.columns[i].name = name

\* addColumn without the refresh of the schema.
addColumnStale(p, name, defaultValue) ==
  IF SchemaHas(p.schema, name) THEN Provider(p.data, p.schema, TRUE)
  ELSE Provider([i \in 1..Len(p.data) |-> SetField(p.data[i], name, defaultValue)],
                p.schema, FALSE)

\* NativeArrayProvider.addColumn
addColumn(p, name, defaultValue) ==
  IF SchemaHas(p.schema, name) THEN Provider(p.data, p.schema, TRUE)
  ELSE LET rows == [i \in 1..Len(p.data) |-> SetField(p.data[i], name, defaultValue)]
       IN Provider(rows, inferSchema(rows), FALSE)

\* NativeArrayProvider.renameColumn
renameColumn(p, oldName, newName) ==
  IF SchemaHas(p.schema, newName) THEN Provider(p.data, p.schema, TRUE)
  ELSE LET rows == [i \in 1..Len(p.data) |->
                      DeleteField(SetField(p.data[i], newName,
                                           Cell(p.data[i], oldName)), oldName)]
       IN Provider(rows, inferSchema(rows), FALSE)

\* NativeArrayProvider.deleteColumn
deleteColumn(p, name) ==
  LET rows == [i \in 1..Len(p.data) |-> DeleteField(p.data[i], name)]
  IN Provider(rows, inferSchema(rows), FALSE)

\* The rows given to load: as parsed from JSON, without __rowid, and one row
\* that carries the __rowid of an earlier session.
NumberedRow == Record(NoRowId, <<"a", "b">>, [a |-> Num(1), b |-> Str(<<"1", ">", "2">>)])

TextRow == Record(NoRowId, <<"a", "b">>, [a |-> Str(<<"2">>), b |-> Str(<<"x">>)])

SavedRow == Record(RowId(0, 0), <<"a", "b">>, [a |-> Num(1), b |-> Str(<<"x">>)])

\* The arrays given to load.
MutationInputs ==
  {<<>>, <<NumberedRow>>, <<TextRow>>, <<NumberedRow, TextRow>>,
   <<TextRow, NumberedRow>>, <<TextRow, TextRow>>, <<SavedRow, TextRow>>,
   <<TextRow, SavedRow>>}

\* The row ids the callers pass: those of the rows, those of the rows deleted,
\* and one that no row ever has.
CalledRowIds ==
  {data[i].rowid : i \in 1..Len(data)} \cup deleted \cup {RowId(MaxDataRows, 0)}

CellValues == {Str(<<"7">>), Str(<<"x", ">", "y">>)}

\* A call of a mutation: whether a row had the row id it was given, and
\* whether it threw; count is the number of calls made so far.
MutationCall(op, rowId, threw) ==
  [op |-> op, transform |-> NoTransform, sortArg |-> <<>>,
   known |-> FindRow(data, rowId) # 0, threw |-> threw, count |-> call.count + 1]

\* The provider before a call.
Current == Provider(data, schema, FALSE)

\* A mutation leaves the provider as p.
Mutated(op, rowId, p) ==
  /\ call.count < MaxOps
  /\ data' = p.data
  /\ schema' = p.schema
  /\ call' = MutationCall(op, rowId, p.threw)
  /\ UNCHANGED <<managerVars, result, sqlResult, engine, wasm, http, search>>

Load ==
  /\ \E input \in MutationInputs : Mutated("load", NoRowId, loadAt(input, now))
  /\ deleted' = {}
  /\ UNCHANGED now

UpdateCell ==
  /\ \E rowId \in CalledRowIds, column \in {"a", "b"}, value \in CellValues :
       Mutated("updateCell", rowId, updateCell(Current, rowId, column, value))
  /\ UNCHANGED <<now, deleted>>

DeleteRow ==
  /\ \E rowId \in CalledRowIds :
       /\ Mutated("deleteRow", rowId, deleteRow(Current, rowId))
       /\ deleted' = IF FindRow(data, rowId) # 0 THEN deleted \cup {rowId} ELSE deleted
  /\ UNCHANGED now

DuplicateRow ==
  /\ Len(data) < MaxDataRows
  /\ \E rowId \in CalledRowIds :
       Mutated("duplicateRow", rowId, duplicateRow(Current, rowId, now))
  /\ UNCHANGED <<now, deleted>>

AddColumn ==
  /\ \E name \in {"b", "c"}, defaultValue \in {Null} :
       Mutated("addColumn", NoRowId, addColumn(Current, name, defaultValue))
  /\ UNCHANGED <<now, deleted>>

RenameColumn ==
  /\ \E names \in {<<"a", "c">>, <<"b", "a">>} :
       Mutated("renameColumn", NoRowId, renameColumn(Current, names[1], names[2]))
  /\ UNCHANGED <<now, deleted>>

DeleteColumn ==
  /\ \E name \in {"b"} :
       Mutated("deleteColumn", NoRowId, deleteColumn(Current, name))
  /\ UNCHANGED <<now, deleted>>

\* Time passes between two calls.
ClockTick ==
  /\ now < MaxTime
  /\ now' = now + 1
  /\ UNCHANGED <<managerVars, data, call, result, sqlResult, schema, deleted,
                 engine, wasm, http, search>>

\* new NativeArrayProvider() on either kind of engine.
InitMutations ==
  /\ filters = <<>>
  /\ sort = <<>>
  /\ pagination = DefaultPagination
  /\ data = <<>>
  /\ call = [op |-> "new", transform |-> NoTransform, sortArg |-> <<>>,
             known |-> FALSE, threw |-> FALSE, count |-> 0]
  /\ result = NoResult
  /\ sqlResult = NoResult
  /\ schema = EmptySchema
  /\ now = 0
  /\ deleted = {}
  /\ engine \in {StrictEngine, [lenientDates |-> TRUE]}
  /\ wasm = NewWasm
  /\ http = NewHttp
  /\ search = NoSearch
  /\ manager = NewManager
  /\ app = NewApp

NextMutations ==
  \/ Load
  \/ UpdateCell
  \/ DeleteRow
  \/ DuplicateRow
  \/ AddColumn
  \/ RenameColumn
  \/ DeleteColumn
  \/ ClockTick

SpecMutations == InitMutations /\ [][NextMutations]_vars

\* C14: after any sequence of load, updateCell, deleteRow, duplicateRow and
\* addColumn, the rows of the dataset have pairwise distinct __rowid values,
\* and no row has the __rowid of a row deleted since the load.
C14_RowIdsDistinctAndNeverReused ==
  /\ \A i, j \in 1..Len(data) : i # j => data[i].rowid # data[j].rowid
  /\ \A i \in 1..Len(data) : data[i].rowid \notin deleted

\* C15: updateCell, deleteRow and duplicateRow called with a row id that no
\* row of the dataset has each throw, and leave the dataset unchanged.
C15_UnknownRowIdThrows ==
  [][(/\ call'.count = call.count + 1
      /\ call'.op \in {"updateCell", "deleteRow", "duplicateRow"}
      /\ ~call'.known)
     => (call'.threw /\ data' = data)]_vars

\* C16, as stated: in every state reachable through load, addColumn,
\* renameColumn, deleteColumn, updateCell, deleteRow and duplicateRow, the
\* stored schema equals inferSchema of the current data.
C16_SchemaMatchesData == schema = inferSchema(data)

\* C16, as the code has it: load, addColumn, renameColumn and deleteColumn,
\* when they return, leave the stored schema equal to inferSchema of the data
\* they leave; updateCell, deleteRow, duplicateRow and a call that throws
\* leave the stored schema as it was.
C16_SchemaRefreshedByColumnOperations ==
  [][call'.count = call.count + 1 =>
       IF call'.op \in {"load", "addColumn", "renameColumn", "deleteColumn"}
          /\ ~call'.threw
       THEN schema' = inferSchema(data')
       ELSE schema' = schema]_vars

\* An updateCell has changed the sample row and the stored schema is stale.
C16_Witness ==
  /\ call.op = "updateCell"
  /\ ~call.threw
  /\ schema.columns # <<>>
  /\ schema # inferSchema(data)

\* C18: in the schema inferSchema builds, every column whose value in the
\* first row is a string containing '>' has the type 'hierarchy' in
\* schema.types and an entry in schema.hierarchy, whether inferType gives the
\* value the type string or date.
C18_HierarchyDetected ==
  (/\ call.op \in {"load", "addColumn", "renameColumn", "deleteColumn"}
   /\ ~call.threw
   /\ data # <<>>)
  => \A k \in Range(data[1].keys) :
       LET value == Cell(data[1], k)
       IN (value.t = "string" /\ \E i \in 1..Len(value.s) : value.s[i] = ">")
          => (/\ k \in DOMAIN schema.types
              /\ schema.types[k] = "hierarchy"
              /\ k \in schema.hierarchy)

\* A loaded column whose sample the engine parses as a date is a hierarchy.
C18_Witness ==
  /\ call.op = "load"
  /\ data # <<>>
  /\ \E i \in 1..Len(schema.columns) :
       LET c == schema.columns[i]
       IN /\ c.type = "date"
          /\ StrIncludes(Cell(data[1], c.name).s, <<">">>)
          /\ schema.types[c.name] = "hierarchy"
          /\ c.name \in schema.hierarchy

(***************************************************************************)
(* NativeArrayProvider.getUniqueValues.                                    *)
(***************************************************************************)
\* valuesSet.add(v), guarded by v != null && v !== '': a Set keeps the order
\* of insertion.
addValue(acc, v) ==
  IF IsNullish(v) \/ v = Str(<<>>) \/ v \in Range(acc) THEN acc ELSE Append(acc, v)

RECURSIVE addValues(_, _)
addValues(acc, vs) ==
  IF vs = <<>> THEN acc ELSE addValues(addValue(acc, Head(vs)), Tail(vs))

\* The forEach of getUniqueValues over the first k rows.
RECURSIVE valuesSet(_, _, _)
valuesSet(rows, column, k) ==
  IF k = 0 THEN <<>>
  ELSE LET value == Cell(rows[k], column)
       IN addValues(valuesSet(rows, column, k - 1),
                    IF value.t = "array" THEN value.a ELSE <<value>>)

\* Array.prototype.sort() without a comparator: the elements are ordered by
\* the code units of their strings, elements with equal strings keep their
\* order.
RECURSIVE defaultSort(_)
defaultSort(xs) ==
  IF xs = <<>> THEN <<>>
  ELSE LET n == Len(xs)
           front == defaultSort(SubSeq(xs, 1, n - 1))
           x == xs[n]
           k == Cardinality({i \in 1..(n - 1) : ~LexLess(ToStr(x), ToStr(front[i]))})
       IN SubSeq(front, 1, k) \o <<x>> \o SubSeq(front, k + 1, n - 1)

\* NativeArrayProvider.getUniqueValues
getUniqueValues(rows, column) == defaultSort(valuesSet(rows, column, Len(rows)))

\* The values of the column v in the rows that are loaded.
UniqueCells ==
  {Null, Str(<<>>), Num(2), Num(10), Str(<<"b">>), Str(<<"a">>),
   Arr(<<Str(<<"a">>), Null, Num(2)>>)}

GetUniqueValues ==
  /\ call.op = "pending"
  /\ \E column \in {"v", "w"} :
       /\ result' = [status |-> "ok", data |-> getUniqueValues(data, column),
                     totalCount |-> 0]
       /\ call' = [Call("getUniqueValues", NoTransform) EXCEPT !.sortArg = <<column>>]
  /\ UNCHANGED <<managerVars, data, sqlResult, extraVars>>

InitUnique ==
  \E cells \in SeqsUpTo(UniqueCells, MaxRows) :
    InitQuery(load([i \in 1..Len(cells) |-> [v |-> cells[i]]]), NoTransform)

NextUnique == GetUniqueValues

SpecUnique == InitUnique /\ [][NextUnique]_vars

\* The values getUniqueValues is to return: the fields of the column and the
\* elements of its array fields, without null, undefined and ''.
ExpectedValues(column) ==
  (UNION {LET value == Cell(data[i], column)
          IN IF value.t = "array" THEN Range(value.a) ELSE {value} :
          i \in 1..Len(data)}) \ {Null, Undefined, Str(<<>>)}

\* C17: getUniqueValues(column) returns an array without duplicates, in
\* ascending order, that holds exactly the non-null, non-empty values of the
\* column and the non-null, non-empty elements of its array fields.
C17_UniqueValuesSorted ==
  call.op = "getUniqueValues" =>
    LET values == result.data
    IN /\ \A i, j \in 1..Len(values) : i # j => values[i] # values[j]
       /\ \A i, j \in 1..Len(values) : i < j => ~JsLess(values[j], values[i])
       /\ Range(values) = ExpectedValues(call.sortArg[1])

(***************************************************************************)
(* FilterSearch: parseExpression, normalizeOperator, serializeBlocks.      *)
(***************************************************************************)
\* An expression has at most MaxTokens tokens.
MaxTokens == 2

\* The characters of the model's expressions that \w does not match (the
\* others are letters and digits), those [^\s] does not match and those
\* [^\s:] does not match.
NonWordChars == {" ", ":", ">", "<", "=", "!", "~"}

SpaceChars == {" "}

SpaceAndColon == {" ", ":"}

\* The length of the longest run of characters outside stops from position i
\* on: what a greedy + takes.
Run(text, i, stops) ==
  CHOOSE k \in 0..(Len(text) - i + 1) :
    /\ \A j \in i..(i + k - 1) : text[j] \notin stops
    /\ (i + k > Len(text) \/ text[i + k] \in stops)

\* The operators of the pattern /^(>=|<=|!=|=|>|<|~|LIKE|IN)?(.*)$/, in the
\* order the alternation tries them.
OperatorPrefixes ==
  <<(<<">", "=">>), (<<"<", "=">>), (<<"!", "=">>), (<<"=">>), (<<">">>), (<<"<">>),
    (<<"~">>), (<<"L", "I", "K", "E">>), (<<"I", "N">>)>>

IsPrefix(pre, cs) == Len(pre) <= Len(cs) /\ SubSeq(cs, 1, Len(pre)) = pre

\* value.match(...)[1]: the first alternative that starts the value, <<>>
\* (undefined) when none does.
operatorMatch(value) ==
  IF \E k \in 1..Len(OperatorPrefixes) : IsPrefix(OperatorPrefixes[k], value)
  THEN OperatorPrefixes[CHOOSE k \in 1..Len(OperatorPrefixes) :
                          /\ IsPrefix(OperatorPrefixes[k], value)
                          /\ \A j \in 1..(k - 1) : ~IsPrefix(OperatorPrefixes[j], value)]
  ELSE <<>>

\* FilterSearch.normalizeOperator
normalizeOperator(op) ==
  CASE op \in {<<"=">>, <<"=", "=">>} -> <<"=">>
    [] op \in {<<"!", "=">>, <<"<", ">">>} -> <<"!", "=">>
    [] op \in {<<">">>, <<"<">>, <<">", "=">>, <<"<", "=">>} -> op
    [] op \in {<<"~">>, <<"L", "I", "K", "E">>} -> <<"L", "I", "K", "E">>
    [] op = <<"I", "N">> -> <<"I", "N">>
    [] OTHER -> <<"=">>

\* The block parseExpression pushes for a match of key:value.
filterBlock(column, value) ==
  LET found == operatorMatch(value)
      operator == IF found = <<>> THEN <<"=">> ELSE found
  IN [type |-> "filter", column |-> column, operator |-> normalizeOperator(operator),
      value |-> SubSeq(value, Len(found) + 1, Len(value)),
      raw |-> column \o <<":">> \o value]

\* The block parseExpression pushes for a match of a bare word.
fulltextBlock(value) ==
  [type |-> "fulltext", column |-> <<>>, operator |-> <<>>, value |-> value,
   raw |-> value]

\* The loop of parseExpression from position i on: regex.exec finds the
\* leftmost match, trying (\w+):([^\s]+) before ([^\s:]+) at each position.
RECURSIVE parseFrom(_, _)
parseFrom(text, i) ==
  IF i > Len(text) THEN <<>>
  ELSE LET w == Run(text, i, NonWordChars)
           v == IF w >= 1 /\ i + w <= Len(text) /\ text[i + w] = ":"
                THEN Run(text, i + w + 1, SpaceChars) ELSE 0
           r == Run(text, i, SpaceAndColon)
       IN IF v >= 1
          THEN <<filterBlock(SubSeq(text, i, i + w - 1),
                             SubSeq(text, i + w + 1, i + w + v))>>
                 \o parseFrom(text, i + w + v + 1)
          ELSE IF r >= 1
            THEN <<fulltextBlock(SubSeq(text, i, i + r - 1))>> \o parseFrom(text, i + r)
          ELSE parseFrom(text, i + 1)

\* FilterSearch.parseExpression
parseExpression(text) == parseFrom(text, 1)

\* FilterSearch.serializeBlocks
RECURSIVE serializeBlocks(_)
serializeBlocks(blocks) ==
  IF blocks = <<>> THEN <<>>
  ELSE LET block == blocks[1]
           op == IF block.operator = <<"=">> THEN <<>> ELSE block.operator
           piece == IF block.type = "filter"
                    THEN block.column \o <<":">> \o op \o block.value
                    ELSE block.value
       IN IF Len(blocks) = 1 THEN piece
          ELSE piece \o <<" ">> \o serializeBlocks(Tail(blocks))

\* The sigils an expression may put before a value, the empty one included.
Sigils == {<<>>, <<">", "=">>, <<"<", "=">>, <<"!", "=">>, <<">">>, <<"<">>, <<"~">>}

\* The tokens of the expressions: bare words, and key:value with a sigil.
Tokens ==
  {<<"x">>, <<"a", "1">>}
  \cup {key \o <<":">> \o sigil \o value :
          key \in {<<"a">>}, sigil \in Sigils, value \in {<<"1">>, <<"X", "y">>}}

\* The tokens joined by single spaces.
RECURSIVE JoinSpace(_)
JoinSpace(tokens) ==
  IF tokens = <<>> THEN <<>>
  ELSE IF Len(tokens) = 1 THEN tokens[1]
  ELSE tokens[1] \o <<" ">> \o JoinSpace(Tail(tokens))

\* The search box parses what was typed and writes its blocks back.
ParseAndSerialize ==
  /\ call.op = "pending"
  /\ search' = [expression |-> search.expression,
                blocks |-> parseExpression(search.expression),
                serialized |-> serializeBlocks(parseExpression(search.expression))]
  /\ call' = Call("serializeBlocks", NoTransform)
  /\ UNCHANGED <<managerVars, nativeVars, sqlResult, wasm, http>>

\* new FilterSearch() with an expression typed into it.
InitSearch ==
  /\ filters = <<>>
  /\ sort = <<>>
  /\ pagination = DefaultPagination
  /\ data = <<>>
  /\ call = Call("pending", NoTransform)
  /\ result = NoResult
  /\ sqlResult = NoResult
  /\ schema = EmptySchema
  /\ now = 0
  /\ deleted = {}
  /\ engine = StrictEngine
  /\ wasm = NewWasm
  /\ http = NewHttp
  /\ manager = NewManager
  /\ app = NewApp
  /\ \E tokens \in SeqsUpTo(Tokens, MaxTokens) :
       search = [NoSearch EXCEPT !.expression = JoinSpace(tokens)]

NextSearch == ParseAndSerialize

SpecSearch == InitSearch /\ [][NextSearch]_vars

\* C19: for every expression x of single-space-separated tokens, each a bare
\* word or key:value with an optional sigil among >=, <=, !=, >, <, ~,
\* serializeBlocks(parseExpression(x)) equals x.
C19_SerializeParseRoundTrip ==
  call.op = "serializeBlocks" => search.serialized = search.expression

\* C20: after toggleFilter(column) on a state in which every entry of the
\* column is enabled, toTransformState has no canonical filter for the
\* column, whatever the number of its entries, and the entries stay in the
\* filter list.
C20_ToggleRemovesColumnFilter ==
  [][\A col \in EntryColumns :
       (/\ FirstOf(filters, col) # 0
        /\ \A i \in 1..Len(filters) : filters[i].column = col => filters[i].enabled
        /\ filters' = toggleFilter(filters, col))
       => LET canonical == toTransformState(filters', sort', pagination').filters
          IN /\ \A k \in 1..Len(canonical) : canonical[k].column # col
             /\ Len(filters') = Len(filters)
             /\ \A i \in 1..Len(filters) :
                  [filters'[i] EXCEPT !.enabled = TRUE]
                    = [filters[i] EXCEPT !.enabled = TRUE]]_vars

(***************************************************************************)
(* SpecManager: subscribe and notifyListeners.                             *)
(***************************************************************************)
\* subscribe is called at most MaxSubscriptions times.
MaxSubscriptions == 3

\* The functions given to subscribe.
ListenerFunctions == {"listener1", "listener2"}

\* SpecManager.subscribe(listener)
subscribe(m, listener) ==
  [m EXCEPT !.listeners = @ \cup {listener},
            !.subscriptions = Append(@, [listener |-> listener, cancelled |-> FALSE])]

\* An unsubscribe function that deletes nothing.
unsubscribeLeak(m, k) == [m EXCEPT !.subscriptions[k].cancelled = TRUE]

\* The function the k-th call of subscribe returned:
\* () => this.listeners.delete(listener)
unsubscribe(m, k) ==
  [m EXCEPT !.listeners = @ \ {m.subscriptions[k].listener},
            !.subscriptions[k].cancelled = TRUE]

\* SpecManager.notifyListeners
notifyListeners(m) == [m EXCEPT !.invoked = m.listeners]

Subscribe ==
  /\ Len(manager.subscriptions) < MaxSubscriptions
  /\ \E listener \in ListenerFunctions : manager' = subscribe(manager, listener)
  /\ call' = Call("subscribe", NoTransform)
  /\ UNCHANGED <<filters, sort, pagination, app, data, result, sqlResult, schema,
                 now, deleted, engine, wasm, http, search>>

\* An unsubscribe function is called, for the first time or again.
Unsubscribe ==
  /\ \E k \in 1..Len(manager.subscriptions) : manager' = unsubscribe(manager, k)
  /\ call' = Call("unsubscribe", NoTransform)
  /\ UNCHANGED <<filters, sort, pagination, app, data, result, sqlResult, schema,
                 now, deleted, engine, wasm, http, search>>

NotifyListeners ==
  /\ manager' = notifyListeners(manager)
  /\ call' = Call("notifyListeners", NoTransform)
  /\ UNCHANGED <<filters, sort, pagination, app, data, result, sqlResult, schema,
                 now, deleted, engine, wasm, http, search>>

InitListeners == InitWith(<<>>, <<>>, DefaultPagination, <<>>)

NextListeners == Subscribe \/ Unsubscribe \/ NotifyListeners

SpecListeners == InitListeners /\ [][NextListeners]_vars

\* The listeners of the subscriptions that have not been cancelled.
LiveListeners ==
  {manager.subscriptions[k].listener :
     k \in {j \in 1..Len(manager.subscriptions) : ~manager.subscriptions[j].cancelled}}

\* The listeners of the subscriptions that have been cancelled.
CancelledListeners ==
  {manager.subscriptions[k].listener :
     k \in {j \in 1..Len(manager.subscriptions) : manager.subscriptions[j].cancelled}}

\* C21, as stated: the listener set holds exactly the subscriptions that have
\* not been cancelled, and a notification invokes no listener whose
\* unsubscribe function has been called.
C21_ListenersAreLiveSubscriptions ==
  /\ manager.listeners = LiveListeners
  /\ call.op = "notifyListeners" => manager.invoked \cap CancelledListeners = {}

\* C21, as the code has it: every listener of the set has a subscription that
\* was not cancelled; when no function was subscribed twice the set holds
\* exactly the listeners of the subscriptions not cancelled; a notification
\* invokes the listeners of the set, so none whose subscriptions are all
\* cancelled.
C21_ListenerSetOfDistinctFunctions ==
  /\ manager.listeners \subseteq LiveListeners
  /\ (\A i, j \in 1..Len(manager.subscriptions) :
        i # j => manager.subscriptions[i].listener # manager.subscriptions[j].listener)
     => manager.listeners = LiveListeners
  /\ call.op = "notifyListeners" =>
       /\ manager.invoked = manager.listeners
       /\ manager.invoked \cap (CancelledListeners \ LiveListeners) = {}

\* Two functions were subscribed, one was unsubscribed, and a notification
\* invoked the other alone.
C21_Witness ==
  /\ call.op = "notifyListeners"
  /\ CancelledListeners = {"listener1"}
  /\ LiveListeners = {"listener2"}
  /\ manager.invoked = {"listener2"}

(***************************************************************************)
(* NativeArrayProvider.query, called twice.                                *)
(***************************************************************************)
\* query without the copy of this.data: with sort rules and no filter the
\* dataset itself is sorted.
queryInPlace(rows, transform, sorted) ==
  LET filtered == queryFilter(rows, transform.filters)
      ordered == IF Len(transform.sort) > 0 THEN sorted ELSE filtered
  IN [data |-> IF Len(transform.sort) > 0 /\ Len(transform.filters) = 0
               THEN sorted ELSE rows,
      result |-> queryPage(ordered, transform)]

\* NativeArrayProvider.query on an engine whose Array.prototype.sort gives
\* `sorted` for the filtered rows: the dataset it leaves and what it returns.
\* The rows are filtered and sorted in a copy, [...this.data].
queryOnCopy(rows, transform, sorted) ==
  LET filtered == queryFilter(rows, transform.filters)
      ordered == IF Len(transform.sort) > 0 THEN sorted ELSE filtered
  IN [data |-> rows, result |-> queryPage(ordered, transform)]

\* provider.query(transform) once more; previous is what the call before it
\* returned.
QueryAgain ==
  /\ call.count < 2
  /\ LET q == queryOnCopy(data, call.transform, engine.sorted)
     IN /\ data' = q.data
        /\ result' = q.result
  /\ call' = [call EXCEPT !.op = "query", !.count = @ + 1, !.previous = result]
  /\ UNCHANGED <<managerVars, sqlResult, schema, now, deleted, engine, wasm, http,
                 search>>

\* A loaded provider, the transform its caller holds, and the order the
\* engine's sort gives the filtered rows.
InitRequery ==
  /\ filters = <<>>
  /\ sort = <<>>
  /\ pagination = DefaultPagination
  /\ data \in Datasets
  /\ \E t \in SortedTransforms \cup PagedTransforms :
       /\ call = [op |-> "pending", transform |-> t, sortArg |-> <<>>, count |-> 0,
                  previous |-> NoResult]
       /\ \E sorted \in (IF Len(t.sort) > 0
                         THEN applySorting(queryFilter(data, t.filters), t.sort)
                         ELSE {queryFilter(data, t.filters)}) :
            engine = [lenientDates |-> FALSE, sorted |-> sorted]
  /\ result = NoResult
  /\ sqlResult = NoResult
  /\ schema = EmptySchema
  /\ now = 0
  /\ deleted = {}
  /\ wasm = NewWasm
  /\ http = NewHttp
  /\ search = NoSearch
  /\ manager = NewManager
  /\ app = NewApp

NextRequery == QueryAgain

SpecRequery == InitRequery /\ [][NextRequery]_vars

\* C22: query leaves the dataset (its rows, their order, their fields) and the
\* schema unchanged for every transform, and a second query with the same
\* transform returns the same data and totalCount as the first.
C22_QueryLeavesDataset ==
  [][call'.op = "query" /\ call'.count = call.count + 1 =>
       /\ data' = data
       /\ schema' = schema
       /\ call.op = "query" =>
            /\ result'.data = result.data
            /\ result'.totalCount = result.totalCount]_vars

\* Two queries with sort rules returned the same rows, in another order than
\* the dataset has them, and the dataset is as it was loaded.
C22_Witness ==
  /\ call.op = "query"
  /\ call.count = 2
  /\ Len(call.transform.sort) > 0
  /\ Len(result.data) = Len(data)
  /\ Len(data) >= 2
  /\ result.data # data
  /\ call.previous = result
  /\ data \in Datasets

(***************************************************************************)
(* SearchBar: a full-text search, then SpecManager.query.                  *)
(***************************************************************************)
\* The rows loaded before a search.
FulltextRows ==
  {Record(NoRowId, <<"a", "b">>, [a |-> Num(1), b |-> Str(<<"x">>)]),
   Record(NoRowId, <<"a", "b">>, [a |-> Num(2), b |-> Str(<<"X", "y">>)]),
   Record(NoRowId, <<"a", "b">>, [a |-> Num(3), b |-> Str(<<"e">>)])}

\* The names of the schema's columns of type 'string'.
textColumns(sch) ==
  LET strings == SelectSeq(sch.columns, LAMBDA c : c.type = "string")
  IN [i \in 1..Len(strings) |-> strings[i].name]

\* The entry handleSearch adds for words typed without a colon.
fulltextEntry(columns, value) ==
  [columns |-> columns, column |-> "Any", operator |-> "ILIKE", value |-> value,
   enabled |-> TRUE, isFulltext |-> TRUE, mode |-> "absent"]

\* SearchBar.handleSearch of a full-text input.
HandleSearch ==
  /\ call.op = "new"
  /\ \E value \in {Str(<<"x">>), Str(<<"e">>)} :
       filters' = IF Len(textColumns(schema)) > 0
                  THEN addFilter(filters, fulltextEntry(textColumns(schema), value))
                  ELSE filters
  /\ call' = Call("handleSearch", NoTransform)
  /\ UNCHANGED <<sort, pagination, data, result, sqlResult, extraVars>>

\* SpecManager.query on the provider, after the search.
FulltextQuery ==
  /\ call.op = "handleSearch"
  /\ LET t == toTransformState(filters, sort, pagination)
     IN /\ \E r \in NativeQuery(data, t) : result' = r
        /\ call' = Call("query", t)
  /\ UNCHANGED <<filters, sort, pagination, data, sqlResult, extraVars>>

InitFulltext ==
  /\ engine = StrictEngine
  /\ filters = <<>>
  /\ sort = <<>>
  /\ pagination = DefaultPagination
  /\ \E input \in SeqsUpTo(FulltextRows, MaxRows) :
       /\ data = loadAt(input, 0).data
       /\ schema = loadAt(input, 0).schema
  /\ call = Call("new", NoTransform)
  /\ result = NoResult
  /\ sqlResult = NoResult
  /\ now = 0
  /\ deleted = {}
  /\ wasm = NewWasm
  /\ http = NewHttp
  /\ search = NoSearch
  /\ manager = NewManager
  /\ app = NewApp

NextFulltext == HandleSearch \/ FulltextQuery

SpecFulltext == InitFulltext /\ [][NextFulltext]_vars

\* C23: a full-text entry with a columns list restricts the result of
\* SpecManager.query to the records in which at least one of the listed
\* columns satisfies the entry's condition.
C23_FulltextAnyColumn ==
  (call.op = "query" /\ Len(filters) = 1) =>
    LET entry == filters[1]
        Matches(row) == \E i \in 1..Len(entry.columns) :
                          checkCondition(Cell(row, entry.columns[i]),
                                         entry.operator, entry.value)
    IN result.data = SelectSeq(data, Matches)

(***************************************************************************)
(* FilterSearch: the filter blocks written into the spec's filter list.    *)
(***************************************************************************)
MaxBlocks == 3
MaxPasted == 2

\* The entry applyBlocks adds for a block of type 'filter'.
blockFilterEntry(block) ==
  [column |-> block.column, operator |-> block.operator, value |-> block.value,
   enabled |-> TRUE]

\* The entry applyBlocks adds for one string column of a full-text block.
blockLikeEntry(name, block) ==
  [column |-> <<name>>, operator |-> <<"L", "I", "K", "E">>,
   value |-> <<"%">> \o block.value \o <<"%">>, enabled |-> TRUE, isFulltext |-> TRUE]

\* textColumns.forEach(col => addFilter(...)) of a full-text block.
RECURSIVE addLikeFilters(_, _, _)
addLikeFilters(es, names, block) ==
  IF names = <<>> THEN es
  ELSE addLikeFilters(addFilter(es, blockLikeEntry(names[1], block)), Tail(names), block)

\* blocks.forEach of applyBlocks, on the list es.
RECURSIVE addBlocks(_, _, _)
addBlocks(es, blocks, sch) ==
  IF blocks = <<>> THEN es
  ELSE LET block == blocks[1]
           next == IF block.type = "filter" THEN addFilter(es, blockFilterEntry(block))
                   ELSE IF block.type = "fulltext"
                     THEN addLikeFilters(es, textColumns(sch), block)
                   ELSE es
       IN addBlocks(next, Tail(blocks), sch)

\* applyBlocks without its first statement.
applyBlocksKeeping(es, blocks, sch) == addBlocks(es, blocks, sch)

\* FilterSearch.applyBlocks: the list es is replaced by an empty one first.
applyBlocks(es, blocks, sch) == addBlocks(<<>>, blocks, sch)

\* Array.prototype.splice(index, 1) on the blocks, index within the array.
spliceOut(blocks, index) == RemoveAt(blocks, index + 1)

\* Array.prototype.splice(index, 0, block)
spliceIn(blocks, index, block) ==
  LET at == Min(index, Len(blocks))
  IN SubSeq(blocks, 1, at) \o <<block>> \o SubSeq(blocks, at + 1, Len(blocks))

\* What is pasted into the search box.
PastedTokens ==
  {<<"x">>, <<"a", ":", ">", "1">>, <<"b", ":", "~", "X", "y">>}

\* The call record of a block operation, with the filter list it found.
BlockCall(op) ==
  [op |-> op, transform |-> NoTransform, sortArg |-> <<>>, before |-> filters]

\* FilterSearch.handlePaste
HandlePaste ==
  /\ \E tokens \in SeqsUpTo(PastedTokens, MaxPasted) :
       LET blocks == search.blocks \o parseExpression(JoinSpace(tokens))
       IN /\ Len(blocks) <= MaxBlocks
          /\ search' = [search EXCEPT !.blocks = blocks]
          /\ filters' = applyBlocks(filters, blocks, schema)
  /\ call' = BlockCall("handlePaste")
  /\ UNCHANGED <<sort, pagination, manager, app, nativeVars, sqlResult, wasm, http>>

\* FilterSearch.removeBlock, with the index of a chip of the search box.
RemoveBlock ==
  /\ \E index \in 0..(Len(search.blocks) - 1) :
       LET blocks == spliceOut(search.blocks, index)
       IN /\ search' = [search EXCEPT !.blocks = blocks]
          /\ filters' = applyBlocks(filters, blocks, schema)
  /\ call' = BlockCall("removeBlock")
  /\ UNCHANGED <<sort, pagination, manager, app, nativeVars, sqlResult, wasm, http>>

\* FilterSearch.reorderBlocks, with the indexes of two chips.
ReorderBlocks ==
  /\ \E fromIndex \in 0..(Len(search.blocks) - 1), toIndex \in 0..(Len(search.blocks) - 1) :
       LET block == search.blocks[fromIndex + 1]
           blocks == spliceIn(spliceOut(search.blocks, fromIndex), toIndex, block)
       IN /\ search' = [search EXCEPT !.blocks = blocks]
          /\ filters' = applyBlocks(filters, blocks, schema)
  /\ call' = BlockCall("reorderBlocks")
  /\ UNCHANGED <<sort, pagination, manager, app, nativeVars, sqlResult, wasm, http>>

\* An entry another component left in the list.
OldEntry == [column |-> <<"o", "l", "d">>, operator |-> <<"=">>,
             value |-> <<"f">>, enabled |-> TRUE]

\* new FilterSearch(schema, provider, specManager) over a loaded provider,
\* the spec's filter list empty or holding an entry of another component.
InitBlocks ==
  /\ engine = StrictEngine
  /\ filters \in {<<>>, <<OldEntry>>}
  /\ sort = <<>>
  /\ pagination = DefaultPagination
  /\ \E input \in SeqsUpTo({Record(NoRowId, <<"a", "b">>, [a |-> Num(1), b |-> Str(<<"x">>)]),
                            Record(NoRowId, <<"a", "b">>,
                                   [a |-> Str(<<"y">>), b |-> Str(<<"x">>)])}, 1) :
       /\ data = loadAt(input, 0).data
       /\ schema = loadAt(input, 0).schema
  /\ call = [op |-> "new", transform |-> NoTransform, sortArg |-> <<>>, before |-> <<>>]
  /\ result = NoResult
  /\ sqlResult = NoResult
  /\ now = 0
  /\ deleted = {}
  /\ wasm = NewWasm
  /\ http = NewHttp
  /\ search = NoSearch
  /\ manager = NewManager
  /\ app = NewApp

NextBlocks == HandlePaste \/ RemoveBlock \/ ReorderBlocks

SpecBlocks == InitBlocks /\ [][NextBlocks]_vars

\* The entries one block stands for.
EntriesOfBlock(block) ==
  IF block.type = "filter"
  THEN <<[column |-> block.column, operator |-> block.operator,
          value |-> block.value, enabled |-> TRUE]>>
  ELSE LET strings == SelectSeq(schema.columns, LAMBDA c : c.type = "string")
       IN [i \in 1..Len(strings) |->
             [column |-> <<strings[i].name>>, operator |-> <<"L", "I", "K", "E">>,
              value |-> <<"%">> \o block.value \o <<"%">>, enabled |-> TRUE,
              isFulltext |-> TRUE]]

\* The entries of the blocks from the i-th on, in block order.
RECURSIVE EntriesFrom(_)
EntriesFrom(i) ==
  IF i > Len(search.blocks) THEN <<>>
  ELSE EntriesOfBlock(search.blocks[i]) \o EntriesFrom(i + 1)

\* C24: after handlePaste, removeBlock and reorderBlocks the spec's filter
\* list holds exactly the entries derived from the current filter blocks, in
\* block order: one enabled entry per filter block with its column, operator
\* and value, one LIKE entry per string column per full-text block; nothing
\* of the list the call found is kept.
C24_FiltersAreTheBlocks ==
  call.op \in {"handlePaste", "removeBlock", "reorderBlocks"} =>
    /\ filters = EntriesFrom(1)
    /\ OldEntry \notin Range(filters)

\* A reorder that found entries in the list and left a filter block's entry
\* after the LIKE entries of a full-text block.
C24_Witness ==
  /\ call.op = "reorderBlocks"
  /\ call.before # <<>>
  /\ Len(search.blocks) >= 2
  /\ search.blocks[1].type = "fulltext"
  /\ search.blocks[2].type = "filter"
  /\ Len(filters) >= 3

(***************************************************************************)
(* SpecManager: the data mutations and the dirty flag.                     *)
(***************************************************************************)
\* The mutations awaiting their provider call at one time.
MaxPending == 2

\* What follows the await of a mutation whose provider call settles as
\* outcome says, were the two statements run whatever the outcome.
mutationSettledAnyway(m, outcome) == notifyListeners([m EXCEPT !.dataDirty = TRUE])

\* What follows `await this.provider.<mutation>(...)`: nothing when the call
\* threw, otherwise this.dataDirty = true; this.notifyListeners().
mutationSettled(m, outcome) ==
  IF outcome.threw THEN m ELSE notifyListeners([m EXCEPT !.dataDirty = TRUE])

\* SpecManager.resetDirty
resetDirty(m) == notifyListeners([m EXCEPT !.dataDirty = FALSE])

\* SpecManager.isDataDirty
isDataDirty(m) == m.dataDirty

\* A mutation of the manager has called the provider, which is left as p, and
\* awaits the outcome.
Awaiting(op, p) ==
  /\ call.count < MaxOps
  /\ Len(call.awaiting) < MaxPending
  /\ data' = p.data
  /\ schema' = p.schema
  /\ call' = [call EXCEPT !.op = op, !.count = @ + 1,
                          !.awaiting = Append(@, [op |-> op, threw |-> p.threw])]
  /\ UNCHANGED <<managerVars, result, sqlResult, engine, wasm, http, search>>

\* SpecManager.updateCell, up to its await.
ManagerUpdateCell ==
  /\ \E rowId \in CalledRowIds :
       Awaiting("updateCell", updateCell(Current, rowId, "a", Str(<<"7">>)))
  /\ UNCHANGED <<now, deleted>>

\* SpecManager.updateRowsByColumn: NativeArrayProvider has no such method,
\* and the manager throws before any provider call.
ManagerUpdateRowsByColumn ==
  /\ Awaiting("updateRowsByColumn", Provider(data, schema, TRUE))
  /\ UNCHANGED <<now, deleted>>

\* SpecManager.deleteRow, up to its await.
ManagerDeleteRow ==
  /\ \E rowId \in CalledRowIds :
       /\ Awaiting("deleteRow", deleteRow(Current, rowId))
       /\ deleted' = IF FindRow(data, rowId) # 0 THEN deleted \cup {rowId} ELSE deleted
  /\ UNCHANGED now

\* SpecManager.duplicateRow, up to its await.
ManagerDuplicateRow ==
  /\ Len(data) < MaxDataRows
  /\ \E rowId \in CalledRowIds :
       Awaiting("duplicateRow", duplicateRow(Current, rowId, now))
  /\ UNCHANGED <<now, deleted>>

\* SpecManager.addColumn, up to its await.
ManagerAddColumn ==
  /\ \E name \in {"b", "c"} : Awaiting("addColumn", addColumn(Current, name, Null))
  /\ UNCHANGED <<now, deleted>>

\* The oldest awaited provider call settles and its mutation goes on.
MutationSettles ==
  /\ call.awaiting # <<>>
  /\ LET outcome == Head(call.awaiting)
     IN /\ manager' = mutationSettled(manager, outcome)
        /\ call' = [call EXCEPT !.op = "settled", !.awaiting = Tail(@),
                                !.settled = outcome,
                                !.completed = @ \/ ~outcome.threw,
                                !.notifications =
                                   IF outcome.threw THEN @ ELSE @ + 1]
  /\ UNCHANGED <<filters, sort, pagination, app, nativeVars, sqlResult, wasm,
                 http, search>>

\* SpecManager.resetDirty, after a save.
ResetDirty ==
  /\ call.count < MaxOps
  /\ manager' = resetDirty(manager)
  /\ call' = [call EXCEPT !.op = "resetDirty", !.count = @ + 1,
                          !.completed = FALSE, !.notifications = @ + 1]
  /\ UNCHANGED <<filters, sort, pagination, app, nativeVars, sqlResult, wasm,
                 http, search>>

\* new SpecManager() with a listener subscribed, over a NativeArrayProvider
\* loaded with two rows.
InitDirty ==
  /\ engine = StrictEngine
  /\ filters = <<>>
  /\ sort = <<>>
  /\ pagination = DefaultPagination
  /\ data = loadAt(<<NumberedRow, TextRow>>, 0).data
  /\ schema = loadAt(<<NumberedRow, TextRow>>, 0).schema
  /\ call = [op |-> "new", transform |-> NoTransform, sortArg |-> <<>>,
             count |-> 0, awaiting |-> <<>>,
             settled |-> [op |-> "none", threw |-> FALSE],
             completed |-> FALSE, notifications |-> 0]
  /\ result = NoResult
  /\ sqlResult = NoResult
  /\ now = 0
  /\ deleted = {}
  /\ wasm = NewWasm
  /\ http = NewHttp
  /\ search = NoSearch
  /\ manager = subscribe(NewManager, "listener1")
  /\ app = NewApp

NextDirty ==
  \/ ManagerUpdateCell
  \/ ManagerUpdateRowsByColumn
  \/ ManagerDeleteRow
  \/ ManagerDuplicateRow
  \/ ManagerAddColumn
  \/ MutationSettles
  \/ ResetDirty
  \/ ClockTick

SpecDirty == InitDirty /\ [][NextDirty]_vars

\* C25: isDataDirty() is true exactly when one of updateCell,
\* updateRowsByColumn, deleteRow, duplicateRow and addColumn has completed
\* successfully since construction or since the last resetDirty; a mutation
\* whose provider call throws leaves the flag as it was and notifies no
\* listener.
C25_DirtyAfterSuccessfulMutation ==
  /\ [](isDataDirty(manager) <=> call.completed)
  /\ [][(call'.op = "settled" /\ call'.settled.threw
           /\ Len(call'.awaiting) = Len(call.awaiting) - 1)
          => /\ isDataDirty(manager') = isDataDirty(manager)
             /\ call'.notifications = call.notifications
             /\ manager'.invoked = manager.invoked]_vars

\* A mutation completed, the flag was reset, and a later updateCell whose
\* provider call threw has settled: the flag is still false and the listener
\* was notified twice, by the first mutation and by the reset.
C25_Witness ==
  /\ call.op = "settled"
  /\ call.settled.threw
  /\ call.settled.op = "updateCell"
  /\ ~isDataDirty(manager)
  /\ call.notifications = 2
  /\ manager.invoked = {"listener1"}

(***************************************************************************)
(* PhosApp: the effect that initializes the selected dataset.              *)
(***************************************************************************)
\* The effect runs at most MaxRuns times.
MaxRuns == 3

\* The run k of initializeData is at position pc.
RunAt(a, k, pc) == [a EXCEPT !.runs[k].pc = pc]

\* The effect: the cleanup of the run before it sets that run's `active` to
\* false, and initializeData starts: setLoading(true), setErrorMessage(''),
\* up to the first await. A dataset that is not among dataFiles ends the run
\* at once.
startRun(a, found) ==
  LET k == Len(a.runs) + 1
      stopped == [i \in 1..Len(a.runs) |-> [a.runs[i] EXCEPT !.active = FALSE]]
      started == Append(stopped, [pc |-> IF found THEN "load" ELSE "done",
                                  active |-> TRUE])
  IN [a EXCEPT !.runs = started, !.loading = found, !.loadingSetBy = k,
               !.errorMessage = IF found THEN 0 ELSE k]

\* The awaits up to providerInstance.load and backendInstance.index are over:
\* a failed fetch sets the error message and ends the run; otherwise the run
\* stops there when it is not active any more, and sets the provider, the
\* spec manager and the raw data when it is.
runLoaded(a, k, ok) ==
  IF ~ok
  THEN [RunAt(a, k, "done") EXCEPT !.errorMessage = k, !.loading = FALSE,
                                   !.loadingSetBy = k]
  ELSE IF ~a.runs[k].active THEN RunAt(a, k, "done")
  ELSE [RunAt(a, k, "getSchema") EXCEPT !.provider = k, !.specManager = k]

\* await providerInstance.getSchema() is over.
runGotSchema(a, k) == [RunAt(a, k, "getUniqueValues") EXCEPT !.schema = k]

\* await Promise.all(... getUniqueValues ...) is over.
runGotUniqueValues(a, k) == [RunAt(a, k, "query") EXCEPT !.uniqueValues = k]

\* await manager.query() is over.
runQueried(a, k) ==
  [RunAt(a, k, "done") EXCEPT !.result = k, !.loading = FALSE, !.loadingSetBy = k]

\* The dataset, the data source or the settings change.
StartRun ==
  /\ Len(app.runs) < MaxRuns
  /\ \E found \in BOOLEAN : app' = startRun(app, found)
  /\ call' = Call("initializeData", NoTransform)
  /\ UNCHANGED <<filters, sort, pagination, manager, nativeVars, sqlResult, wasm,
                 http, search>>

\* A run of initializeData goes on from the await it was suspended at.
RunResumes(k, pc, after) ==
  /\ k \in 1..Len(app.runs)
  /\ app.runs[k].pc = pc
  /\ app' = after
  /\ call' = Call(pc, NoTransform)
  /\ UNCHANGED <<filters, sort, pagination, manager, nativeVars, sqlResult, wasm,
                 http, search>>

RunLoaded ==
  \E k \in 1..MaxRuns, ok \in BOOLEAN : RunResumes(k, "load", runLoaded(app, k, ok))

RunGotSchema ==
  \E k \in 1..MaxRuns : RunResumes(k, "getSchema", runGotSchema(app, k))

RunGotUniqueValues ==
  \E k \in 1..MaxRuns : RunResumes(k, "getUniqueValues", runGotUniqueValues(app, k))

RunQueried ==
  \E k \in 1..MaxRuns : RunResumes(k, "query", runQueried(app, k))

InitApp == InitWith(<<>>, <<>>, DefaultPagination, <<>>)

NextApp == StartRun \/ RunLoaded \/ RunGotSchema \/ RunGotUniqueValues \/ RunQueried

SpecApp == InitApp /\ [][NextApp]_vars

\* What the runs write into the application state.
AppState(a) ==
  <<a.provider, a.specManager, a.schema, a.uniqueValues, a.result, a.loading,
    a.loadingSetBy>>

\* C26: a run of the dataset initialization that has been superseded (its
\* cleanup has set active to false) writes none of its results (provider,
\* spec manager, schema, unique values, query result, loading flag) into the
\* application state, whichever await it was suspended at.
C26_SupersededRunWritesNothing ==
  [][\A k \in 1..Len(app.runs) :
       (~app.runs[k].active /\ Len(app'.runs) = Len(app.runs)
          /\ app'.runs[k].pc # app.runs[k].pc)
       => AppState(app') = AppState(app)]_vars

(***************************************************************************)
(* SpecManager: grouping and presets.                                      *)
(***************************************************************************)
MaxPresets == 2
MaxPresetOps == 4

\* Boolean(value) of a string, null or undefined.
Truthy(v) == v.t = "string" /\ v.s # <<>>

\* SpecManager.setGroupBy
setGroupBy(m, column) ==
  [m EXCEPT !.groupBy = column,
            !.groupLevels = IF Truthy(column) THEN <<column>> ELSE <<>>]

\* SpecManager.setGroupLevels
setGroupLevels(m, levels) ==
  LET normalized == IF levels.t = "array" THEN SelectSeq(levels.a, Truthy) ELSE <<>>
  IN [m EXCEPT !.groupLevels = normalized,
               !.groupBy = IF normalized # <<>> THEN normalized[1] ELSE Null]

\* An entry object of the heap: the entry and the identity of the object.
Object(entry, ref) ==
  [column |-> entry.column, operator |-> entry.operator, value |-> entry.value,
   enabled |-> entry.enabled, mode |-> entry.mode, ref |-> ref]

\* The entries the objects of an array hold.
EntriesOf(objects) ==
  [i \in 1..Len(objects) |->
     Entry(objects[i].column, objects[i].operator, objects[i].value,
           objects[i].enabled, objects[i].mode)]

\* The preset handleSavePreset builds from the current spec: its filters are
\* the array of spec.state.filters itself.
savedPreset(m, es, name) ==
  [name |-> name, groupBy |-> m.groupBy, hasFilters |-> TRUE, filters |-> es,
   isStateArray |-> TRUE, saved |-> EntriesOf(es)]

\* SpecManager.addPreset
addPreset(m, preset) == [m EXCEPT !.presets = Append(@, preset)]

\* this.spec.presets.find(p => p.name === presetName), 0 when there is none.
FindPreset(m, presetName) ==
  IF \E k \in 1..Len(m.presets) : m.presets[k].name = presetName
  THEN CHOOSE k \in 1..Len(m.presets) :
         /\ m.presets[k].name = presetName
         /\ \A j \in 1..(k - 1) : m.presets[j].name # presetName
  ELSE 0

\* spec.state.filters is assigned a new array: no preset holds it.
WithNewStateArray(m) ==
  [m EXCEPT !.presets = [k \in 1..Len(m.presets) |->
                           [m.presets[k] EXCEPT !.isStateArray = FALSE]]]

\* An object is pushed to the array of spec.state.filters, which the presets
\* saved from it hold too.
WithPushed(m, object) ==
  [m EXCEPT !.presets = [k \in 1..Len(m.presets) |->
     IF m.presets[k].isStateArray
     THEN [m.presets[k] EXCEPT !.filters = Append(@, object)]
     ELSE m.presets[k]]]

\* The object ref gets its enabled flag negated, in every array that holds it.
WithToggled(m, ref) ==
  [m EXCEPT !.presets = [k \in 1..Len(m.presets) |->
     [m.presets[k] EXCEPT !.filters =
        [i \in 1..Len(m.presets[k].filters) |->
           IF m.presets[k].filters[i].ref = ref
           THEN [m.presets[k].filters[i] EXCEPT !.enabled = ~@]
           ELSE m.presets[k].filters[i]]]]]

\* preset.filters.map(f => ({ ...f, enabled: true })): new objects.
enabledCopies(objects, count) ==
  [i \in 1..Len(objects) |->
     [objects[i] EXCEPT !.enabled = TRUE, !.ref = <<count, i>>]]

\* The call record of an operation on the groups, the presets and the filters.
PresetCall(op, applied) ==
  [op |-> op, transform |-> NoTransform, sortArg |-> <<>>,
   count |-> call.count + 1, applied |-> applied]

SetGroupBy ==
  /\ call.count < MaxPresetOps
  /\ \E column \in {Null, Str(<<>>), Str(<<"a">>), Str(<<"b">>)} :
       manager' = setGroupBy(manager, column)
  /\ call' = PresetCall("setGroupBy", 0)
  /\ UNCHANGED <<filters, sort, pagination, app, nativeVars, sqlResult, wasm,
                 http, search>>

SetGroupLevels ==
  /\ call.count < MaxPresetOps
  /\ \E levels \in {Null} \cup {Arr(a) : a \in SeqsUpTo({Str(<<>>), Str(<<"a">>),
                                                          Str(<<"b">>)}, 2)} :
       manager' = setGroupLevels(manager, levels)
  /\ call' = PresetCall("setGroupLevels", 0)
  /\ UNCHANGED <<filters, sort, pagination, app, nativeVars, sqlResult, wasm,
                 http, search>>

\* SpecControls.handleSavePreset: addPreset of the current groupBy and filters.
SavePreset ==
  /\ call.count < MaxPresetOps
  /\ Len(manager.presets) < MaxPresets
  /\ \E name \in {"P", "Q"} :
       manager' = addPreset(manager, savedPreset(manager, filters, name))
  /\ call' = PresetCall("addPreset", 0)
  /\ UNCHANGED <<filters, sort, pagination, app, nativeVars, sqlResult, wasm,
                 http, search>>

\* addPreset of an object with a name, and a groupBy or none, and no filters.
AddPreset ==
  /\ call.count < MaxPresetOps
  /\ Len(manager.presets) < MaxPresets
  /\ \E name \in {"P", "Q"}, groupBy \in {Undefined, Str(<<"a">>)} :
       manager' = addPreset(manager,
                    [name |-> name, groupBy |-> groupBy, hasFilters |-> FALSE,
                     filters |-> <<>>, isStateArray |-> FALSE, saved |-> <<>>])
  /\ call' = PresetCall("addPreset", 0)
  /\ UNCHANGED <<filters, sort, pagination, app, nativeVars, sqlResult, wasm,
                 http, search>>

\* SpecManager.applyPreset
ApplyPreset ==
  /\ call.count < MaxPresetOps
  /\ \E presetName \in {"P", "Q"} :
       LET k == FindPreset(manager, presetName)
       IN /\ call' = PresetCall("applyPreset", k)
          /\ IF k = 0 THEN UNCHANGED <<manager, filters>>
             ELSE IF manager.presets[k].hasFilters
               THEN /\ filters' = enabledCopies(manager.presets[k].filters,
                                                call.count + 1)
                    /\ manager' = WithNewStateArray(
                                    setGroupBy(manager, manager.presets[k].groupBy))
               ELSE /\ manager' = setGroupBy(manager, manager.presets[k].groupBy)
                    /\ UNCHANGED filters
  /\ UNCHANGED <<sort, pagination, app, nativeVars, sqlResult, wasm, http, search>>

\* SpecManager.addFilter, with presets saved.
AddFilterToArray ==
  /\ call.count < MaxPresetOps
  /\ Len(filters) < MaxEntries
  /\ \E col \in EntryColumns :
       LET object == Object(Entry(col, "=", Num(1), TRUE, "absent"),
                            <<call.count + 1, 0>>)
       IN /\ filters' = addFilter(filters, object)
          /\ manager' = WithPushed(manager, object)
  /\ call' = PresetCall("addFilter", 0)
  /\ UNCHANGED <<sort, pagination, app, nativeVars, sqlResult, wasm, http, search>>

\* SpecManager.toggleFilter, with presets saved.
ToggleFilterObject ==
  /\ call.count < MaxPresetOps
  /\ \E col \in EntryColumns :
       /\ FirstOf(filters, col) # 0
       /\ filters' = toggleFilter(filters, col)
       /\ manager' = WithToggled(manager, filters[FirstOf(filters, col)].ref)
  /\ call' = PresetCall("toggleFilter", 0)
  /\ UNCHANGED <<sort, pagination, app, nativeVars, sqlResult, wasm, http, search>>

\* SpecManager.removeFilter, with presets saved.
RemoveFilterFromCopy ==
  /\ call.count < MaxPresetOps
  /\ \E col \in EntryColumns :
       /\ filters' = removeFilter(filters, col)
       /\ manager' = WithNewStateArray(manager)
  /\ call' = PresetCall("removeFilter", 0)
  /\ UNCHANGED <<sort, pagination, app, nativeVars, sqlResult, wasm, http, search>>

InitPresets ==
  /\ filters = <<>>
  /\ sort = <<>>
  /\ pagination = DefaultPagination
  /\ data = <<>>
  /\ call = [op |-> "new", transform |-> NoTransform, sortArg |-> <<>>,
             count |-> 0, applied |-> 0]
  /\ result = NoResult
  /\ sqlResult = NoResult
  /\ InitExtra

NextPresets ==
  \/ SetGroupBy
  \/ SetGroupLevels
  \/ SavePreset
  \/ AddPreset
  \/ ApplyPreset
  \/ AddFilterToArray
  \/ ToggleFilterObject
  \/ RemoveFilterFromCopy

SpecPresets == InitPresets /\ [][NextPresets]_vars

\* C27: a preset saved from the current state keeps the filter list it had
\* when it was saved, whatever addFilter, toggleFilter and removeFilter do
\* later, and applyPreset restores the filters as they were saved.
C27_PresetKeepsSavedFilters ==
  /\ \A k \in 1..Len(manager.presets) :
       manager.presets[k].hasFilters =>
         EntriesOf(manager.presets[k].filters) = manager.presets[k].saved
  /\ (call.op = "applyPreset" /\ call.applied # 0
        /\ manager.presets[call.applied].hasFilters)
     => EntriesOf(filters) = manager.presets[call.applied].saved

\* C30: after setGroupBy, setGroupLevels and applyPreset, state.groupBy is
\* the first element of state.groupLevels, and is null exactly when
\* state.groupLevels is empty.
C30_GroupByIsFirstLevel ==
  /\ manager.groupLevels # <<>> => manager.groupBy = manager.groupLevels[1]
  /\ manager.groupBy = Null <=> manager.groupLevels = <<>>

(***************************************************************************)
(* MultiLevelSort: the sort levels, queried on both providers.             *)
(***************************************************************************)
\* SpecManager.addSortLevel
addSortLevel(st, sortItem) == Append(st, sortItem)

\* The columns of the schema no sort level has, in schema order.
availableColumns(sch, sortLevels) ==
  SelectSeq(sch.columns,
            LAMBDA c : ~\E i \in 1..Len(sortLevels) : sortLevels[i].column = c.name)

\* MultiLevelSort.handleAddSortLevel
HandleAddSortLevel ==
  /\ sort' = IF Len(availableColumns(schema, sort)) = 0 THEN sort
             ELSE addSortLevel(sort, SortRule(availableColumns(schema, sort)[1].name,
                                              "ASC"))
  /\ call' = Call("handleAddSortLevel", NoTransform)
  /\ UNCHANGED <<filters, pagination, data, result, sqlResult, extraVars>>

\* MultiLevelSort.handleChangeSortDirection, from the button of a level:
\* 'ASC' becomes 'DESC' and 'DESC' becomes 'ASC'.
HandleChangeSortDirection ==
  /\ \E index \in 1..Len(sort) :
       sort' = [sort EXCEPT ![index].direction = IF @ = "ASC" THEN "DESC" ELSE "ASC"]
  /\ call' = Call("handleChangeSortDirection", NoTransform)
  /\ UNCHANGED <<filters, pagination, data, result, sqlResult, extraVars>>

\* The transform of the state queried on a NativeArrayProvider and on a
\* DuckDBWasmProvider, each loaded with the dataset.
QueryLevels ==
  /\ call.op # "queryLevels"
  /\ LET t == toTransformState(filters, sort, pagination)
     IN /\ \E r \in NativeQuery(data, t) : result' = r
        /\ \E r \in WasmQuery(data, {"a", "b"}, {}, t) : sqlResult' = r
        /\ call' = Call("queryLevels", t)
  /\ UNCHANGED <<filters, sort, pagination, data, extraVars>>

\* The rows loaded: no two rows have the same value in a column.
LevelRows ==
  {<<>>,
   <<[a |-> Num(1), b |-> Str(<<"x">>)]>>,
   <<[a |-> Num(1), b |-> Str(<<"x">>)], [a |-> Num(2), b |-> Str(<<"y">>)]>>,
   <<[a |-> Num(2), b |-> Str(<<"x">>)], [a |-> Num(1), b |-> Str(<<"y">>)]>>,
   <<[a |-> Num(3), b |-> Str(<<"y">>)], [a |-> Num(1), b |-> Str(<<"z">>)],
     [a |-> Num(2), b |-> Str(<<"x">>)]>>,
   <<[a |-> Num(1), b |-> Str(<<"z">>)], [a |-> Num(2), b |-> Str(<<"y">>)],
     [a |-> Num(3), b |-> Str(<<"x">>)]>>}

InitLevels ==
  /\ filters = <<>>
  /\ sort = <<>>
  /\ pagination = DefaultPagination
  /\ \E cells \in LevelRows :
       /\ data = load(cells)
       /\ schema = IF cells = <<>> THEN EmptySchema
                   ELSE [columns |-> <<[name |-> "a", type |-> "number"],
                                       [name |-> "b", type |-> "string"]>>,
                         types |-> [a |-> "number", b |-> "string"],
                         hierarchy |-> {}]
  /\ call = Call("new", NoTransform)
  /\ result = NoResult
  /\ sqlResult = NoResult
  /\ now = 0
  /\ deleted = {}
  /\ engine = StrictEngine
  /\ wasm = NewWasm
  /\ http = NewHttp
  /\ search = NoSearch
  /\ manager = NewManager
  /\ app = NewApp

NextLevels == HandleAddSortLevel \/ HandleChangeSortDirection \/ QueryLevels

SpecLevels == InitLevels /\ [][NextLevels]_vars

\* rows are in the order of the first sort level: ascending for 'ASC',
\* descending for 'DESC'.
InLevelOrder(rows, rule) ==
  \A i, j \in 1..Len(rows) :
    i < j =>
      IF rule.direction = "ASC"
        THEN ~JsGreater(Cell(rows[i], rule.column), Cell(rows[j], rule.column))
        ELSE ~JsLess(Cell(rows[i], rule.column), Cell(rows[j], rule.column))

\* C29: a sort level added through MultiLevelSort ('ASC', toggled to 'DESC')
\* makes NativeArrayProvider return the rows in ascending order of the column
\* for 'ASC' and in descending order for 'DESC', the order the ORDER BY clause
\* of DuckDBWasmProvider gives for the same rule.
C29_SortLevelDirection ==
  (call.op = "queryLevels" /\ Len(sort) >= 1) =>
    /\ InLevelOrder(result.data, sort[1])
    /\ result.data = sqlResult.data

(***************************************************************************)
(* NativeArrayProvider.inferSchema: the two records of a column's type.    *)
(***************************************************************************)
\* C28: every entry {name, type} of schema.columns has the type that
\* schema.types records for its name, hierarchy columns included.
C28_ColumnTypesAgree ==
  \A i \in 1..Len(schema.columns) :
    /\ schema.columns[i].name \in DOMAIN schema.types
    /\ schema.columns[i].type = schema.types[schema.columns[i].name]
====
